---- MODULE Spec2Model ----
(***************************************************************************)
(* Seat-planning engine: demand model (allocation_engine.py), scarcity     *)
(* redistribution (distribute_seats), greedy spatial placement             *)
(* (spatial.py), the integer program of optimizer.py and the scenario      *)
(* engine (scenario_engine.py).                                            *)
(*                                                                         *)
(* Number representation.  The source computes with Python floats; the     *)
(* model computes with exact rationals <<n, d>> kept in lowest terms.      *)
(* Percentages (allocation %, growth, attrition, multipliers, factors) are *)
(* carried as integer hundredths, RTO days as integer tenths, head counts  *)
(* and seats as integers.  Python's round() is round-half-to-even.         *)
(***************************************************************************)
EXTENDS Integers, Sequences, FiniteSets, TLC

VARIABLES
    op,            \* the operation that produced the current state
    unit,          \* the Unit handed to the demand model
    att,           \* the AttendanceProfile handed to the demand model
    horizon,       \* horizon_months
    rule_config,   \* rule_config dict: key -> value (missing keys fall back)
    rec,           \* what the last demand-model call returned
    units,         \* List[Unit]
    allocations,   \* List[AllocationRecommendation], mutated in place by the stages
    total_supply,  \* total_supply handed to distribute_seats
    floors,        \* List[Floor]
    excluded,      \* excluded floor ids
    assignments,   \* List[FloorAssignment] of the last placement
    fragmentation, \* fragmentation_scores of the last placement
    opt_args,      \* the remaining arguments of optimize_allocation
    opt_result,    \* the OptimizationResult of the last optimize_allocation
    solves,        \* the prob.solve calls of the last optimize_allocation, in order
    heap,          \* the objects alive: reference -> Unit, AttendanceProfile, Floor or dict
    scenario,      \* the Scenario handed to the scenario engine
    ret,           \* what the last scenario-engine call returned
    runs,          \* the results stored by the run_scenario calls so far, oldest first
    session,       \* st.session_state: scenarios, active_scenario_id, optimization_result
    procs,         \* the run_scenario calls in progress: position and locals of each
    placing        \* the assign_units_to_floors call in progress: position and locals

vars == <<op, unit, att, horizon, rule_config, rec, units, allocations, total_supply,
          floors, excluded, assignments, fragmentation, opt_args, opt_result,
          solves, heap, scenario, ret, runs, session, procs,
          placing>>
demandVars == <<unit, att, horizon, rec>>
spatialVars == <<floors, excluded, assignments, fragmentation>>
optVars == <<opt_args, opt_result, solves>>
scenarioVars == <<heap, scenario, ret, runs>>
appVars == <<session, procs, placing>>

-----------------------------------------------------------------------------
(* Bounds of the model *)

MaxHc == 3
MaxDemand == 3
MaxSupply == 5
MaxSeats == 3
MaxCap == 3
MaxOptCap == 2
MaxOptDemand == 2
MaxScnHc == 2
MaxScnCap == 2
MaxRuns == 2
MaxWideDemand == 12
MaxWideCap == 12

-----------------------------------------------------------------------------
(* config/defaults.py, in the model's integer scales *)

DEFAULT_GLOBAL_ALLOC_PCT == 80
MIN_ALLOC_PCT == 20
MAX_ALLOC_PCT == 150
STABILITY_DISCOUNT_THRESHOLD == 70
PEAK_BUFFER_MULTIPLIER == 100
SHRINK_CONTRIBUTION_FACTOR == 50
WORKING_DAYS_PER_WEEK == 5
ADJACENCY_BONUS_SAME_FLOOR == 100
ADJACENCY_BONUS_ADJACENT_FLOOR == 60
ADJACENCY_BONUS_SAME_TOWER == 30
ADJACENCY_BONUS_CROSS_TOWER == 0
FRAGMENTATION_PENALTY_PER_FLOOR == 30

\* PRIORITY_ORDER.get(p, 3), p an Optional[str]
PRIORITY_ORDER(p) ==
    IF p = {} THEN 3
    ELSE LET v == CHOOSE x \in p : TRUE
         IN  CASE v = "High" -> 0
               [] v = "Medium" -> 1
               [] v = "Low" -> 2
               [] OTHER -> 3

-----------------------------------------------------------------------------
(* Exact arithmetic *)

Abs(x) == IF x < 0 THEN -x ELSE x

RECURSIVE GCD(_, _)
GCD(a, b) == IF b = 0 THEN a ELSE GCD(b, a % b)

\* the rational n/d (d > 0) in lowest terms
Q(n, d) ==
    LET g == GCD(Abs(n), d)
    IN  [n |-> n \div g, d |-> d \div g]

QInt(k) == [n |-> k, d |-> 1]
QLe(a, b) == a.n * b.d <= b.n * a.d
QLt(a, b) == a.n * b.d < b.n * a.d
QMax(a, b) == IF QLt(a, b) THEN b ELSE a
QMin(a, b) == IF QLt(b, a) THEN b ELSE a
QAdd(a, b) == Q(a.n * b.d + b.n * a.d, a.d * b.d)
QMul(a, b) == Q(a.n * b.n, a.d * b.d)

\* Python round(n/d): nearest integer, ties to the even one
PyRound(n, d) ==
    LET fl == (2 * n + d) \div (2 * d)
        tie == ((2 * n + d) % (2 * d)) = 0
    IN  IF tie /\ fl % 2 # 0 THEN fl - 1 ELSE fl

\* dict.get(key, default)
CfgGet(cfg, key, default) ==
    IF key \in DOMAIN cfg THEN cfg[key] ELSE default

-----------------------------------------------------------------------------
(* models/ *)

\* Optional[...] values: None is the empty set, a value v the set {v}
None == {}
Some(v) == {v}
Val(o) == CHOOSE v \in o : TRUE

\* a list as an object built once: its elements are computed when it is made,
\* not again at every access
List(f) == f @@ << >>

\* Unit: a record of the dataclass fields unit_name, current_total_hc,
\* hc_growth_pct, attrition_pct, business_priority.  The dataclass declares
\* no seat_alloc_pct; an instance has that attribute only once it was
\* assigned (u.seat_alloc_pct = ...), which the record models by having or
\* not having the field.
HasAttr(obj, attr) == attr \in DOMAIN obj

\* AllocationRecommendation (explanation_steps, text only, is left out)
Recommendation(name, pct, demand) ==
    [unit_name |-> name,
     recommended_alloc_pct |-> pct,
     effective_demand_seats |-> demand,
     allocated_seats |-> 0,
     seat_gap |-> 0,
     fragmentation_score |-> QInt(0),
     is_overridden |-> FALSE,
     override_alloc_pct |-> None]

\* Unit.net_hc_change_pct, in hundredths
net_hc_change_pct(u) == u.hc_growth_pct - u.attrition_pct

\* what a call hands back: a value, or the exception it raised
Returned(v) == [raised |-> "no", value |-> v]
Raised(e) == [raised |-> e, value |-> Recommendation("", QInt(0), 0)]

-----------------------------------------------------------------------------
(* engine/allocation_engine.py: demand model *)

\* 1 + net_change * (horizon_months / 12)
HorizonFactorSignSlip(u, horizon_months) ==
    Q(1200 + (u.hc_growth_pct + u.attrition_pct) * horizon_months, 1200)
HorizonFactor(u, horizon_months) ==
    Q(1200 + net_hc_change_pct(u) * horizon_months, 1200)

\* max(min_alloc, min(max_alloc, raw))
NoClamp(raw, min_alloc, max_alloc) == raw
Clamp(raw, min_alloc, max_alloc) ==
    QMax(Q(min_alloc, 100), QMin(Q(max_alloc, 100), raw))

\* the early return of both modes for a unit without head count
ZeroPctForEmptyUnit(name) == Recommendation(name, Q(DEFAULT_GLOBAL_ALLOC_PCT, 100), 0)
ZeroHeadcount(name) == Recommendation(name, QInt(0), 0)

\* growth_adjusted of the attendance-derived mode
GrowthAdjusted(u, a, horizon_months) ==
    LET base_ratio == Q(a.monthly_median_hc, u.current_total_hc)
        rto_factor == Q(a.avg_rto_days_per_week, 10 * WORKING_DAYS_PER_WEEK)
        scaled_ratio == QMul(base_ratio, rto_factor)
    IN  QMul(scaled_ratio, HorizonFactor(u, horizon_months))

compute_recommended_allocation(u, a, horizon_months, cfg) ==
    LET min_alloc == CfgGet(cfg, "min_alloc_pct", MIN_ALLOC_PCT)
        max_alloc == CfgGet(cfg, "max_alloc_pct", MAX_ALLOC_PCT)
        buffer_multiplier == CfgGet(cfg, "peak_buffer_multiplier", PEAK_BUFFER_MULTIPLIER)
        hc == u.current_total_hc
        peak_buffer == QMul(Q(a.monthly_max_hc - a.monthly_median_hc, hc),
                            Q(buffer_multiplier, 100))
        raw_alloc_pct == QAdd(GrowthAdjusted(u, a, horizon_months), peak_buffer)
        recommended_alloc_pct == Clamp(raw_alloc_pct, min_alloc, max_alloc)
        effective_demand == PyRound(recommended_alloc_pct.n * hc, recommended_alloc_pct.d)
    IN  IF hc = 0
        THEN Returned(ZeroHeadcount(u.unit_name))
        ELSE Returned(Recommendation(u.unit_name, recommended_alloc_pct, effective_demand))

compute_simple_allocation(u, horizon_months, cfg) ==
    LET global_alloc == CfgGet(cfg, "global_alloc_pct", DEFAULT_GLOBAL_ALLOC_PCT)
        min_alloc == CfgGet(cfg, "min_alloc_pct", MIN_ALLOC_PCT)
        max_alloc == CfgGet(cfg, "max_alloc_pct", MAX_ALLOC_PCT)
        hc == u.current_total_hc
        base_alloc == IF u.seat_alloc_pct # None THEN Val(u.seat_alloc_pct) ELSE global_alloc
        adjusted_alloc == QMul(Q(base_alloc, 100), HorizonFactor(u, horizon_months))
        recommended_alloc_pct == Clamp(adjusted_alloc, min_alloc, max_alloc)
        effective_demand == PyRound(recommended_alloc_pct.n * hc, recommended_alloc_pct.d)
    IN  IF hc = 0
        THEN Returned(ZeroHeadcount(u.unit_name))
        ELSE IF ~HasAttr(u, "seat_alloc_pct")
        THEN Raised("AttributeError")
        ELSE Returned(Recommendation(u.unit_name, recommended_alloc_pct, effective_demand))

-----------------------------------------------------------------------------
(* engine/allocation_engine.py: distribute_seats *)

RECURSIVE SumOver(_, _)
\* sum(f[i] for i in S)
SumOver(f, S) ==
    IF S = {} THEN 0
    ELSE LET i == CHOOSE x \in S : TRUE IN f[i] + SumOver(f, S \ {i})

TotalDemand(allocs) ==
    SumOver([i \in DOMAIN allocs |-> allocs[i].effective_demand_seats], DOMAIN allocs)
TotalAllocated(allocs) ==
    SumOver([i \in DOMAIN allocs |-> allocs[i].allocated_seats], DOMAIN allocs)

\* unit_map.get(name): the dict comprehension keeps the last unit of a name
UnitMapGet(us, name) ==
    LET hits == {i \in DOMAIN us : us[i].unit_name = name}
    IN  IF hits = {} THEN None
        ELSE Some(us[CHOOSE i \in hits : \A j \in hits : j <= i])

\* sort_key(a) = (priority, -net_growth)
sort_key(a, us) ==
    LET u == UnitMapGet(us, a.unit_name)
    IN  <<PRIORITY_ORDER(IF u = None THEN None ELSE Val(u).business_priority),
          IF u = None THEN 0 ELSE 0 - net_hc_change_pct(Val(u))>>

KeyLess(k1, k2) == k1[1] < k2[1] \/ (k1[1] = k2[1] /\ k1[2] < k2[2])

\* sorted(allocations, key=sort_key), as the sequence of list positions:
\* Python's sort is stable, equal keys keep their list order
SortedOrder(allocs, us) ==
    LET n == Len(allocs)
        key(i) == sort_key(allocs[i], us)
        before(j, i) == KeyLess(key(j), key(i)) \/ (key(j) = key(i) /\ j < i)
        rank(i) == 1 + Cardinality({j \in 1..n : before(j, i)})
    IN  List([p \in 1..n |-> CHOOSE i \in 1..n : rank(i) = p])

\* Step B: a shrinking unit's demand after its release
AfterRelease(a, us, contribution_factor) ==
    LET u == UnitMapGet(us, a.unit_name)
        net == IF u = None THEN 0 ELSE net_hc_change_pct(Val(u))
        release == PyRound(Abs(net) * a.effective_demand_seats * contribution_factor, 10000)
        reduced == a.effective_demand_seats - release
    IN  IF u # None /\ net < 0
        THEN [a EXCEPT !.effective_demand_seats = IF reduced > 0 THEN reduced ELSE 0]
        ELSE a

\* min(demand, round(remaining * share)), share = demand / total_demand
AssignedUncapped(demand, remaining, total_demand) ==
    IF total_demand > 0 THEN PyRound(remaining * demand, total_demand) ELSE 0
Assigned(demand, remaining, total_demand) ==
    IF total_demand > 0
    THEN LET r == PyRound(remaining * demand, total_demand)
         IN  IF demand < r THEN demand ELSE r
    ELSE 0

\* every unit's share taken of the whole supply and the whole demand, with no
\* running remainder
FixedShares(allocs, order, k, remaining, total_demand) ==
    [i \in DOMAIN allocs |->
        [allocs[i] EXCEPT
            !.allocated_seats = Assigned(allocs[i].effective_demand_seats, remaining,
                                         total_demand),
            !.seat_gap = Assigned(allocs[i].effective_demand_seats, remaining, total_demand)
                            - allocs[i].effective_demand_seats]]

RECURSIVE ProportionalWalk(_, _, _, _, _)
\* Step C: the loop over sorted_allocs, from position k of the sort order
ProportionalWalk(allocs, order, k, remaining, total_demand) ==
    IF k > Len(order) THEN allocs
    ELSE LET i == order[k]
             d == allocs[i].effective_demand_seats
             assigned == Assigned(d, remaining, total_demand)
             next == [allocs EXCEPT ![i].allocated_seats = assigned,
                                    ![i].seat_gap = assigned - d]
         IN  ProportionalWalk(next, order, k + 1, remaining - assigned, total_demand - d)

distribute_seats(allocs, us, supply, cfg) ==
    LET contribution_factor ==
            CfgGet(cfg, "shrink_contribution_factor", SHRINK_CONTRIBUTION_FACTOR)
        released == List([i \in DOMAIN allocs |->
                             AfterRelease(allocs[i], us, contribution_factor)])
    IN  IF TotalDemand(allocs) <= supply
        THEN [i \in DOMAIN allocs |->
                 [allocs[i] EXCEPT !.allocated_seats = allocs[i].effective_demand_seats,
                                   !.seat_gap = 0]]
        ELSE ProportionalWalk(released, SortedOrder(allocs, us), 1,
                              supply, TotalDemand(released))

-----------------------------------------------------------------------------
(* engine/spatial.py *)

QDiv(a, b) == Q(a.n * b.d, a.d * b.n)

\* Floor.floor_id, f"{tower_id}-F{floor_number}", as the pair it is built from
floor_id(f) == <<f.tower_id, f.floor_number>>

FloorAssignment(unit_name, f, seats, tier) ==
    [unit_name |-> unit_name, building_id |-> f.building_id, tower_id |-> f.tower_id,
     floor_number |-> f.floor_number, seats_assigned |-> seats, adjacency_tier |-> tier]

\* (tier, bonus) of placing unit_name on floor f, given the assignments so far
compute_adjacency_tier(f, existing, unit_name) ==
    LET unit_floors == {i \in DOMAIN existing : existing[i].unit_name = unit_name}
    IN  IF unit_floors = {} THEN <<"new_placement", 0>>
        ELSE IF \E i \in unit_floors :
                    /\ existing[i].tower_id = f.tower_id
                    /\ existing[i].floor_number = f.floor_number
        THEN <<"same_floor", ADJACENCY_BONUS_SAME_FLOOR>>
        ELSE IF \E i \in unit_floors :
                    /\ existing[i].tower_id = f.tower_id
                    /\ Abs(existing[i].floor_number - f.floor_number) = 1
        THEN <<"adjacent", ADJACENCY_BONUS_ADJACENT_FLOOR>>
        ELSE IF \E i \in unit_floors : existing[i].tower_id = f.tower_id
        THEN <<"same_tower", ADJACENCY_BONUS_SAME_TOWER>>
        ELSE <<"cross_tower", ADJACENCY_BONUS_CROSS_TOWER>>

score_floor_for_unit(f, available_seats, existing, unit_name, floors_used_by_unit) ==
    IF available_seats <= 0 THEN -999999
    ELSE available_seats * 10 + compute_adjacency_tier(f, existing, unit_name)[2]
             - floors_used_by_unit * FRAGMENTATION_PENALTY_PER_FLOOR

\* seats of a list of FloorAssignment on floor f / of unit nm
SeatsOnFloorOf(asg, f) ==
    SumOver([i \in DOMAIN asg |-> asg[i].seats_assigned],
            {i \in DOMAIN asg : <<asg[i].tower_id, asg[i].floor_number>> = floor_id(f)})
SeatsOfUnit(asg, nm) ==
    SumOver([i \in DOMAIN asg |-> asg[i].seats_assigned],
            {i \in DOMAIN asg : asg[i].unit_name = nm})

\* number of distinct floors the unit already has seats on
FloorsUsed(existing, unit_name) ==
    Cardinality({<<existing[i].tower_id, existing[i].floor_number>> :
                    i \in {j \in DOMAIN existing : existing[j].unit_name = unit_name}})

\* floor_remaining at the start: the non-excluded floors, by position in floors
InitialRemainingCountingExcluded(fl, excl) ==
    [i \in DOMAIN fl |-> fl[i].total_seats]
InitialRemaining(fl, excl) ==
    [i \in {j \in DOMAIN fl : floor_id(fl[j]) \notin excl} |-> fl[i].total_seats]

\* a scan that lets a later floor of the same score replace the best so far
LastBestFloorAbove(least, fl, floor_remaining, existing, unit_name) ==
    LET floors_used == FloorsUsed(existing, unit_name)
        s(i) == score_floor_for_unit(fl[i], floor_remaining[i], existing, unit_name, floors_used)
        cand == {i \in DOMAIN floor_remaining : floor_remaining[i] > least /\ s(i) > -999999}
        top == {i \in cand : \A j \in cand : s(j) <= s(i)}
    IN  IF cand = {} THEN 0 ELSE CHOOSE i \in top : \A j \in top : j <= i

\* the "find best floor" loop over the floors with more than `least` seats left:
\* the first floor, in dict order, of the highest score above the initial
\* best_score; 0 stands for best_floor_id = None
BestFloorAbove(least, fl, floor_remaining, existing, unit_name) ==
    LET floors_used == FloorsUsed(existing, unit_name)
        s(i) == score_floor_for_unit(fl[i], floor_remaining[i], existing, unit_name, floors_used)
        cand == {i \in DOMAIN floor_remaining : floor_remaining[i] > least /\ s(i) > -999999}
        top == {i \in cand : \A j \in cand : s(j) <= s(i)}
    IN  IF cand = {} THEN 0 ELSE CHOOSE i \in top : \A j \in top : i <= j

\* `if remaining <= 1: continue`
BestFloorSkippingLastSeat(fl, floor_remaining, existing, unit_name) ==
    BestFloorAbove(1, fl, floor_remaining, existing, unit_name)
\* `if remaining <= 0: continue`
BestFloor(fl, floor_remaining, existing, unit_name) ==
    BestFloorAbove(0, fl, floor_remaining, existing, unit_name)

\* an iteration that picks a floor and puts no seat on it
SeatsOnFloorNone(seats_to_place, remaining) == 0

\* min(seats_to_place, floor_remaining[best_floor_id])
SeatsOnFloorIgnoringRemaining(seats_to_place, remaining) == seats_to_place
SeatsOnFloor(seats_to_place, remaining) ==
    IF seats_to_place < remaining THEN seats_to_place ELSE remaining

RECURSIVE PlaceSeats(_, _, _, _)
\* the while loop of one unit; st = [assignments, floor_remaining]
PlaceSeats(fl, st, unit_name, seats_to_place) ==
    IF seats_to_place <= 0 THEN st
    ELSE LET best == BestFloor(fl, st.floor_remaining, st.assignments, unit_name)
         IN  IF best = 0 THEN st
             ELSE LET seats_on_floor == SeatsOnFloor(seats_to_place, st.floor_remaining[best])
                      tier == compute_adjacency_tier(fl[best], st.assignments, unit_name)[1]
                      next == [assignments |->
                                   Append(st.assignments,
                                          FloorAssignment(unit_name, fl[best], seats_on_floor, tier)),
                               floor_remaining |->
                                   [st.floor_remaining EXCEPT ![best] = @ - seats_on_floor]]
                  IN  PlaceSeats(fl, next, unit_name, seats_to_place - seats_on_floor)

\* the units taken in list order, unsorted
InputOrder(allocs) == [p \in 1..Len(allocs) |-> p]

\* sorted(allocations, key=allocated_seats, reverse=True): stable, so equal
\* units keep their list order
PlacementOrder(allocs) ==
    LET n == Len(allocs)
        before(j, i) == \/ allocs[j].allocated_seats > allocs[i].allocated_seats
                        \/ (allocs[j].allocated_seats = allocs[i].allocated_seats /\ j < i)
        rank(i) == 1 + Cardinality({j \in 1..n : before(j, i)})
    IN  List([p \in 1..n |-> CHOOSE i \in 1..n : rank(i) = p])

RECURSIVE PlaceUnits(_, _, _, _, _)
PlaceUnits(allocs, fl, order, k, st) ==
    IF k > Len(order) THEN st
    ELSE PlaceUnits(allocs, fl, order, k + 1,
                    PlaceSeats(fl, st, allocs[order[k]].unit_name,
                               allocs[order[k]].allocated_seats))

\* min(1.0, (floors_used / ideal_floors - 1) / 3), 0.0 for a unit without seats
FragmentationScore(a, placed) ==
    LET floors_used == FloorsUsed(placed, a.unit_name)
        ideal_floors == QMax(QInt(1), Q(a.allocated_seats, 120))
    IN  IF a.allocated_seats = 0 THEN QInt(0)
        ELSE QMin(QInt(1),
                  QDiv(QAdd(QDiv(QInt(floors_used), ideal_floors), QInt(-1)), QInt(3)))

\* assign_units_to_floors: the assignments, the fragmentation_scores dict and
\* the allocations with their fragmentation_score written back
assign_units_to_floors(allocs, fl, excl) ==
    LET st == PlaceUnits(allocs, fl, PlacementOrder(allocs), 1,
                         [assignments |-> << >>, floor_remaining |-> InitialRemaining(fl, excl)])
        names == {allocs[i].unit_name : i \in DOMAIN allocs}
        scores == List([nm \in names |->
                      FragmentationScore(
                          allocs[CHOOSE i \in DOMAIN allocs :
                                    /\ allocs[i].unit_name = nm
                                    /\ \A j \in DOMAIN allocs :
                                          allocs[j].unit_name = nm => j <= i],
                          st.assignments)])
    IN  [assignments |-> st.assignments,
         fragmentation_scores |-> scores,
         allocations |-> List([i \in DOMAIN allocs |->
                                  [allocs[i] EXCEPT
                                      !.fragmentation_score = scores[allocs[i].unit_name]]])]

-----------------------------------------------------------------------------
(* engine/optimizer.py *)

\* _compute_rto_demand: max(1, round((base + peak) * (rto / WORKING_DAYS_PER_WEEK)))
compute_rto_demand(a, buffer_mult, override_rto) ==
    LET rto == IF override_rto # None THEN Val(override_rto) ELSE a.avg_rto_days_per_week
        need == PyRound((a.monthly_median_hc * 100
                            + (a.monthly_max_hc - a.monthly_median_hc) * buffer_mult) * rto,
                        100 * 10 * WORKING_DAYS_PER_WEEK)
    IN  IF need > 1 THEN need ELSE 1

\* demand[u], by position of u in allocations
DemandBasisIgnoringTarget(allocs, args, cfg) ==
    LET buffer_mult == CfgGet(cfg, "peak_buffer_multiplier", PEAK_BUFFER_MULTIPLIER)
        att_map == args.attendance_map
    IN  [i \in DOMAIN allocs |->
            LET u == allocs[i].unit_name
            IN  IF args.objective \in {"rto_based", "rto_whatif"} /\ u \in DOMAIN att_map
                THEN compute_rto_demand(att_map[u], buffer_mult, None)
                ELSE allocs[i].effective_demand_seats]
DemandBasis(allocs, args, cfg) ==
    LET buffer_mult == CfgGet(cfg, "peak_buffer_multiplier", PEAK_BUFFER_MULTIPLIER)
        att_map == args.attendance_map
    IN  [i \in DOMAIN allocs |->
            LET u == allocs[i].unit_name
            IN  IF args.objective = "rto_based" /\ u \in DOMAIN att_map
                THEN compute_rto_demand(att_map[u], buffer_mult, None)
                ELSE IF /\ args.objective = "rto_whatif"
                        /\ u \in DOMAIN att_map
                        /\ args.target_rto_days # None
                THEN compute_rto_demand(att_map[u], buffer_mult, args.target_rto_days)
                ELSE allocs[i].effective_demand_seats]

\* available_floors, by position in floors
AvailableFloors(fl, excl) == {j \in DOMAIN fl : floor_id(fl[j]) \notin excl}

\* _build_adjacency_weights: weights.get((unit, floor), 0)
AdjacencyWeight(f, baseline, unit_name) ==
    LET existing == {<<baseline[k].building_id, baseline[k].tower_id, baseline[k].floor_number>> :
                        k \in {n \in DOMAIN baseline : baseline[n].unit_name = unit_name}}
    IN  IF <<f.building_id, f.tower_id, f.floor_number>> \in existing THEN 100
        ELSE IF \E e \in existing : e[2] = f.tower_id /\ Abs(e[3] - f.floor_number) = 1 THEN 60
        ELSE IF \E e \in existing : e[2] = f.tower_id THEN 30
        ELSE IF \E e \in existing : e[1] = f.building_id THEN 15
        ELSE 0

\* an upper bound that takes no notice of the pinned towers
UpBoundUnpinned(allocs, fl, args, i, j) == fl[j].total_seats

\* upper bound of x[(u, fid)]: the floor's seats, 0 where C4 pins the unit elsewhere
UpBound(allocs, fl, args, i, j) ==
    LET u == allocs[i].unit_name
        pins == args.pinned_tower_ids
    IN  IF u \in DOMAIN pins /\ pins[u] # {} /\ fl[j].tower_id \notin pins[u]
        THEN 0
        ELSE fl[j].total_seats

UnitTotal(x, avail, i) == SumOver([j \in avail |-> x[<<i, j>>]], avail)
FloorTotal(x, allocs, j) == SumOver([i \in DOMAIN allocs |-> x[<<i, j>>]], DOMAIN allocs)
FloorCount(x, avail, i) == Cardinality({j \in avail : x[<<i, j>>] > 0})

\* C5: round(min_guarantee_pct * demand[u]), for the units that get a constraint
MinSeats(args, demand, i) ==
    IF args.min_guarantee_pct # None /\ Val(args.min_guarantee_pct) > 0
    THEN PyRound(Val(args.min_guarantee_pct) * demand[i], 100)
    ELSE 0

GuaranteedUnits(allocs, args, demand) ==
    {i \in DOMAIN allocs : MinSeats(args, demand, i) > 0}

\* C2: sum of the unit's seats <= demand[u]
WithinDemandUncapped(total, demand_u) == TRUE
WithinDemand(total, demand_u) == total <= demand_u

\* C1: sum of the floor's seats <= total_seats
WithinCapacityUnchecked(total, seats) == TRUE
WithinCapacity(total, seats) == total <= seats

\* the integer points of the program: x within its bounds, C1-C3 and, while
\* they are in the problem, the minguarantee constraints
FeasibleSet(allocs, fl, avail, args, demand, guaranteed) ==
    LET pairs == (DOMAIN allocs) \X avail
        top == CHOOSE m \in {0} \cup {fl[j].total_seats : j \in avail} :
                   \A j \in avail : fl[j].total_seats <= m
    IN  { x \in [pairs -> 0..top] :
            /\ \A pr \in pairs : x[pr] <= UpBound(allocs, fl, args, pr[1], pr[2])
            /\ \A j \in avail : WithinCapacity(FloorTotal(x, allocs, j), fl[j].total_seats)
            /\ \A i \in DOMAIN allocs : WithinDemand(UnitTotal(x, avail, i), demand[i])
            /\ args.max_floors_per_unit # None =>
                  \A i \in DOMAIN allocs :
                     FloorCount(x, avail, i) <= Val(args.max_floors_per_unit)
            /\ \A i \in guaranteed : UnitTotal(x, avail, i) >= MinSeats(args, demand, i) }

\* combined_objective at the best s and y for x, in thousandths:
\* 100 * shortfall + 1 * floors used - 0.001 * cohesion
ObjectiveValue(x, allocs, fl, avail, baseline, demand) ==
    LET short(i) == IF demand[i] > UnitTotal(x, avail, i)
                    THEN demand[i] - UnitTotal(x, avail, i) ELSE 0
        shortfall == SumOver([i \in DOMAIN allocs |-> short(i)], DOMAIN allocs)
        used == SumOver([i \in DOMAIN allocs |-> FloorCount(x, avail, i)], DOMAIN allocs)
        pairs == (DOMAIN allocs) \X avail
        cohesion == SumOver([pr \in pairs |->
                                x[pr] * AdjacencyWeight(fl[pr[2]], baseline,
                                                        allocs[pr[1]].unit_name)], pairs)
    IN  100000 * shortfall + 1000 * used - cohesion

\* what prob.solve can end with: an optimal point, or Infeasible
SolveOutcomes(allocs, fl, avail, baseline, args, demand, guaranteed) ==
    LET feas == FeasibleSet(allocs, fl, avail, args, demand, guaranteed)
        val(x) == ObjectiveValue(x, allocs, fl, avail, baseline, demand)
        vals == {val(x) : x \in feas}
        least == CHOOSE v \in vals : \A w \in vals : v <= w
    IN  IF feas = {} THEN {[status |-> "Infeasible", x |-> << >>, objective |-> 0]}
        ELSE {[status |-> "Optimal", x |-> x, objective |-> least] :
                 x \in {z \in feas : val(z) = least}}

\* a solve that hit timeLimit before proving anything
TimedOut == [status |-> "Not Solved", x |-> << >>, objective |-> 0]

\* the (unit, floor) pairs in the order of the extraction loops
PairOrder(allocs, fl) ==
    LET m == Len(fl)
    IN  [k \in 1..(Len(allocs) * m) |-> <<((k - 1) \div m) + 1, ((k - 1) % m) + 1>>]

NewAssignments(x, allocs, fl, avail) ==
    LET Keep(pr) == pr[2] \in avail /\ x[pr] > 0
        kept == SelectSeq(PairOrder(allocs, fl), Keep)
    IN  [k \in DOMAIN kept |->
            FloorAssignment(allocs[kept[k][1]].unit_name, fl[kept[k][2]], x[kept[k]], "optimized")]

\* the result of a final status other than Optimal
FailedResultWithoutDiagnosis(status) ==
    [status |-> status, objective_value |-> 0, assignments |-> << >>,
     unit_allocations |-> << >>, before_after |-> << >>,
     consolidation_suggestions |-> << >>,
     message |-> [text |-> "Optimization could not find a solution", status |-> "",
                  relaxed_note |-> FALSE],
     savings_summary |-> None]
FailedResult(status) ==
    [status |-> status, objective_value |-> 0, assignments |-> << >>,
     unit_allocations |-> << >>, before_after |-> << >>,
     consolidation_suggestions |-> << >>,
     message |-> [text |-> "Optimization could not find a solution", status |-> status,
                  relaxed_note |-> FALSE],
     savings_summary |-> None]

\* the result built from an optimal point
OptimalResult(o, relaxed_guarantee, allocs, fl, avail, baseline, args, demand) ==
    LET new_assignments == NewAssignments(o.x, allocs, fl, avail)
        names == {allocs[i].unit_name : i \in DOMAIN allocs}
        unit_totals == [u \in names |-> SeatsOfUnit(new_assignments, u)]
        floorsOf(asg) == {<<asg[k].tower_id, asg[k].floor_number>> : k \in DOMAIN asg}
        before_after ==
            [i \in DOMAIN allocs |->
                LET u == allocs[i].unit_name
                IN  [Unit |-> u, Demand |-> demand[i],
                     BeforeSeats |-> SeatsOfUnit(baseline, u),
                     AfterSeats |-> unit_totals[u],
                     SeatChange |-> unit_totals[u] - SeatsOfUnit(baseline, u),
                     BeforeFloors |-> FloorsUsed(baseline, u),
                     AfterFloors |-> FloorsUsed(new_assignments, u),
                     FloorChange |-> FloorsUsed(new_assignments, u) - FloorsUsed(baseline, u)]]
        Consolidated(i) == FloorsUsed(new_assignments, allocs[i].unit_name)
                               < FloorsUsed(baseline, allocs[i].unit_name)
        suggestions ==
            LET idx == SelectSeq([i \in DOMAIN allocs |-> i], Consolidated)
            IN  [k \in DOMAIN idx |->
                    [unit |-> allocs[idx[k]].unit_name,
                     from |-> FloorsUsed(baseline, allocs[idx[k]].unit_name),
                     to |-> FloorsUsed(new_assignments, allocs[idx[k]].unit_name)]]
        optimized_total == SumOver(unit_totals, names)
        savings ==
            [allocation_rule_seats |-> TotalDemand(allocs),
             rto_based_seats |-> SumOver(demand, DOMAIN allocs),
             optimized_seats |-> optimized_total,
             seats_saved |-> TotalDemand(allocs) - optimized_total,
             floors_before |-> Cardinality(floorsOf(baseline)),
             floors_after |-> Cardinality(floorsOf(new_assignments)),
             floors_freed |-> Cardinality(floorsOf(baseline))
                                 - Cardinality(floorsOf(new_assignments))]
    IN  [status |-> o.status, objective_value |-> o.objective,
         assignments |-> new_assignments,
         unit_allocations |-> unit_totals,
         before_after |-> before_after,
         consolidation_suggestions |-> suggestions,
         message |-> [text |-> "Optimization complete", status |-> o.status,
                      relaxed_note |-> relaxed_guarantee],
         savings_summary |-> IF args.objective \in {"rto_based", "rto_whatif"}
                             THEN Some(savings) ELSE None]

\* prob.constraints: the names the constraints were added under (units and
\* floors by their index)
ConstraintNames(allocs, avail, args, guaranteed_units) ==
    {<<"link", pr>> : pr \in (DOMAIN allocs) \X avail}
    \cup {<<"shortfall", i>> : i \in DOMAIN allocs}
    \cup {<<"cap", j>> : j \in avail}
    \cup {<<"max", i>> : i \in DOMAIN allocs}
    \cup {<<"maxfloors", i>> :
             i \in IF args.max_floors_per_unit # None THEN DOMAIN allocs ELSE {}}
    \cup {<<"minguarantee", i>> : i \in guaranteed_units}

\* the units whose minguarantee constraint is in the problem
GuaranteedIn(constraints) ==
    {c[2] : c \in {d \in constraints : d[1] = "minguarantee"}}

\* if status != "Optimal" and guaranteed_units
RetriesWithoutGuarantee(status, guaranteed_units) == status # "Optimal"
NeedsRelaxation(status, guaranteed_units) ==
    status # "Optimal" /\ guaranteed_units # {}

\* a retry that finds none of the names and deletes nothing
KeptAll(constraints, guaranteed_units) == constraints

\* del prob.constraints[cname] for every guaranteed unit whose cname is there
Relaxed(constraints, guaranteed_units) ==
    constraints \ {<<"minguarantee", i>> : i \in guaranteed_units}

\* one call of optimize_allocation: the solves it makes, each with the
\* constraints in the problem and the status it ended with, and the
\* OptimizationResult returned; every way the solves can end is an element
OptimizeCalls(allocs, fl, baseline, excl, args, cfg) ==
    LET avail == AvailableFloors(fl, excl)
        demand == DemandBasis(allocs, args, cfg)
        guaranteed_units == GuaranteedUnits(allocs, args, demand)
        constraints == ConstraintNames(allocs, avail, args, guaranteed_units)
        after == Relaxed(constraints, guaranteed_units)
        Solve(cs) == SolveOutcomes(allocs, fl, avail, baseline, args, demand,
                                   GuaranteedIn(cs)) \cup {TimedOut}
        Entry(o, cs) == [status |-> o.status, constraints |-> cs]
        first == Solve(constraints)
        once == {[solves |-> <<Entry(f, constraints)>>, o |-> f, relaxed |-> FALSE] :
                    f \in {g \in first : ~NeedsRelaxation(g.status, guaranteed_units)}}
        twice == {[solves |-> <<Entry(pr[1], constraints), Entry(pr[2], after)>>,
                   o |-> pr[2], relaxed |-> TRUE] :
                     pr \in {g \in first : NeedsRelaxation(g.status, guaranteed_units)}
                               \X (IF \E g \in first :
                                         NeedsRelaxation(g.status, guaranteed_units)
                                   THEN Solve(after) ELSE {})}
    IN  { [solves |-> r.solves,
           result |-> IF r.o.status # "Optimal"
                      THEN FailedResult(r.o.status)
                      ELSE OptimalResult(r.o, r.relaxed, allocs, fl, avail, baseline,
                                         args, demand)] :
             r \in once \cup twice }

\* optimize_allocation: every OptimizationResult the call can return, given
\* what the solves can end with
optimize_allocation(allocs, fl, baseline, excl, args, cfg) ==
    {c.result : c \in OptimizeCalls(allocs, fl, baseline, excl, args, cfg)}

-----------------------------------------------------------------------------
(* engine/allocation_engine.py: the pipeline *)

\* compute_all_allocations: compute_simple_allocation for every unit, whatever
\* rule_config says; an exception of one call ends the loop
compute_all_allocations(us, horizon_months, cfg) ==
    LET each == List([i \in DOMAIN us |->
                         compute_simple_allocation(us[i], horizon_months, cfg)])
    IN  IF \E i \in DOMAIN us : each[i].raised # "no"
        THEN [raised |-> "AttributeError", value |-> << >>]
        ELSE [raised |-> "no", value |-> List([i \in DOMAIN us |-> each[i].value])]

\* sum(f.total_seats for f in floors)
TotalSeats(fl) == SumOver([i \in DOMAIN fl |-> fl[i].total_seats], DOMAIN fl)

run_allocation(us, fl, horizon_months, cfg) ==
    LET computed == compute_all_allocations(us, horizon_months, cfg)
    IN  IF computed.raised # "no" THEN computed
        ELSE [raised |-> "no",
              value |-> List(distribute_seats(computed.value, us, TotalSeats(fl), cfg))]

-----------------------------------------------------------------------------
(* engine/scenario_engine.py, over a heap of objects: a list holds references, *)
(* and a write through a reference is seen through every alias of it          *)

\* a reference no object has yet
NewRef(h) ==
    IF DOMAIN h = {} THEN 1
    ELSE 1 + CHOOSE a \in DOMAIN h : \A b \in DOMAIN h : b <= a

\* copy.deepcopy(obj) of an object whose fields are plain values
SameObject(h, a) == [heap |-> h, ref |-> a]
deepcopy(h, a) == [heap |-> h @@ (NewRef(h) :> h[a]), ref |-> NewRef(h)]

\* dict(d): a new dict holding the same references
SameDict(h, a) == [heap |-> h, ref |-> a]
dict_copy(h, a) == [heap |-> h @@ (NewRef(h) :> h[a]), ref |-> NewRef(h)]

\* d.get(key)
DictGet(d, key) == IF key \in DOMAIN d THEN Some(d[key]) ELSE None

\* ScenarioOverride(unit_name) with every override left at None
ScenarioOverride(unit_name) ==
    [unit_name |-> unit_name, hc_growth_pct |-> None, attrition_pct |-> None,
     median_hc |-> None, max_hc |-> None, avg_rto_days |-> None,
     alloc_pct_override |-> None]

\* the growth and attrition overrides written to the copy u
OverrideUnit(u, override) ==
    IF override = None THEN u
    ELSE LET o == Val(override)
             g == IF o.hc_growth_pct # None
                  THEN [u EXCEPT !.hc_growth_pct = Val(o.hc_growth_pct)] ELSE u
         IN  IF o.attrition_pct # None
             THEN [g EXCEPT !.attrition_pct = Val(o.attrition_pct)] ELSE g

RECURSIVE CopyUnits(_, _, _, _, _)
\* the loop over units, from position k; out is modified_units so far
CopyUnits(h, unit_refs, k, scn, out) ==
    IF k > Len(unit_refs) THEN [heap |-> h, refs |-> out]
    ELSE LET c == deepcopy(h, unit_refs[k])
             u == OverrideUnit(c.heap[c.ref],
                               DictGet(scn.unit_overrides, c.heap[c.ref].unit_name))
         IN  CopyUnits([c.heap EXCEPT ![c.ref] = u], unit_refs, k + 1, scn, Append(out, c.ref))

\* the attendance overrides written to the copy a
OverrideProfile(a, o) ==
    LET a1 == IF o.median_hc # None
              THEN [a EXCEPT !.monthly_median_hc = Val(o.median_hc)] ELSE a
        a2 == IF o.max_hc # None
              THEN [a1 EXCEPT !.monthly_max_hc = Val(o.max_hc)] ELSE a1
    IN  IF o.avg_rto_days # None
        THEN [a2 EXCEPT !.avg_rto_days_per_week = Val(o.avg_rto_days)] ELSE a2

RECURSIVE OverrideAttendance(_, _, _, _)
\* the loop over scenario.unit_overrides.items(), names being the keys still
\* to visit; m is the reference of modified_attendance
OverrideAttendance(h, m, names, scn) ==
    IF names = {} THEN h
    ELSE LET nm == CHOOSE x \in names : TRUE
         IN  IF nm \notin DOMAIN h[m]
             THEN OverrideAttendance(h, m, names \ {nm}, scn)
             ELSE LET c == deepcopy(h, h[m][nm])
                      a == OverrideProfile(c.heap[c.ref], scn.unit_overrides[nm])
                      written == [c.heap EXCEPT ![c.ref] = a]
                  IN  OverrideAttendance([written EXCEPT ![m] = [@ EXCEPT ![nm] = c.ref]],
                                         m, names \ {nm}, scn)

RECURSIVE MandateAttendance(_, _, _, _)
\* the loop over modified_attendance.items() under a global RTO mandate
MandateAttendance(h, m, names, mandate) ==
    IF names = {} THEN h
    ELSE LET nm == CHOOSE x \in names : TRUE
             c == deepcopy(h, h[m][nm])
             rto == c.heap[c.ref].avg_rto_days_per_week
             a == [c.heap[c.ref] EXCEPT
                      !.avg_rto_days_per_week = IF rto > mandate THEN rto ELSE mandate]
             written == [c.heap EXCEPT ![c.ref] = a]
         IN  MandateAttendance([written EXCEPT ![m] = [@ EXCEPT ![nm] = c.ref]],
                               m, names \ {nm}, mandate)

\* apply_overrides: the heap after the call, modified_units (references) and
\* the reference of modified_attendance
apply_overrides(h, unit_refs, attendance_map, scn) ==
    LET m == dict_copy(h, attendance_map)
        cu == CopyUnits(m.heap, unit_refs, 1, scn, << >>)
        h2 == OverrideAttendance(cu.heap, m.ref, DOMAIN scn.unit_overrides, scn)
        h3 == IF scn.params.global_rto_mandate_days # None
              THEN MandateAttendance(h2, m.ref, DOMAIN h2[m.ref],
                                     Val(scn.params.global_rto_mandate_days))
              ELSE h2
    IN  [heap |-> h3, units |-> cu.refs, attendance_map |-> m.ref]

\* max(0, round(total_seats * (1 - reduction)))
ReducedSeats(total_seats, reduction) ==
    LET r == PyRound(total_seats * (100 - reduction), 100)
    IN  IF r > 0 THEN r ELSE 0

RECURSIVE CopyFloors(_, _, _, _, _)
\* the loop over floors, from position k; out is modified so far
CopyFloors(h, floor_refs, k, scn, out) ==
    IF k > Len(floor_refs) THEN [heap |-> h, floors |-> out]
    ELSE IF floor_id(h[floor_refs[k]]) \in scn.params.excluded_floors
    THEN CopyFloors(h, floor_refs, k + 1, scn, out)
    ELSE LET c == deepcopy(h, floor_refs[k])
             reduction == scn.params.capacity_reduction_pct
             f == IF reduction > 0
                  THEN [c.heap[c.ref] EXCEPT !.total_seats = ReducedSeats(@, reduction)]
                  ELSE c.heap[c.ref]
         IN  CopyFloors([c.heap EXCEPT ![c.ref] = f], floor_refs, k + 1, scn,
                        Append(out, c.ref))

apply_floor_modifications(h, floor_refs, scn) == CopyFloors(h, floor_refs, 1, scn, << >>)


\* the manual allocation % override of one recommendation
OverrideAllocation(alloc, us, scn) ==
    LET override == DictGet(scn.unit_overrides, alloc.unit_name)
        hits == {i \in DOMAIN us : us[i].unit_name = alloc.unit_name}
    IN  IF override = None \/ Val(override).alloc_pct_override = None THEN alloc
        ELSE LET v == Val(Val(override).alloc_pct_override)
                 marked == [alloc EXCEPT !.is_overridden = TRUE,
                                         !.override_alloc_pct = Some(Q(v, 100)),
                                         !.recommended_alloc_pct = Q(v, 100)]
             IN  IF hits = {} THEN marked
                 ELSE LET u == us[CHOOSE i \in hits : \A j \in hits : i <= j]
                      IN  [marked EXCEPT
                              !.effective_demand_seats = PyRound(v * u.current_total_hc, 100)]

\* scenario.floor_assignments = assignments
ExtendedAssignments(stored, asg) == stored \o asg
StoredAssignments(stored, asg) == asg

-----------------------------------------------------------------------------
(* Inputs of the demand model *)

GrowthValues == {0, 10, 30}
AttritionValues == {0, 10, 40}
HorizonValues == {0, 6, 12}
SeatAllocValues == {None, Some(10), Some(90), Some(200)}
RtoValues == {0, 25, 50}
StabilityValues == {None, Some(90)}

RuleConfigs ==
    { << >>,
      [global_alloc_pct |-> 80, min_alloc_pct |-> 20, max_alloc_pct |-> 150],
      [global_alloc_pct |-> 30, min_alloc_pct |-> 50, max_alloc_pct |-> 60,
       peak_buffer_multiplier |-> 150],
      [min_alloc_pct |-> 60, max_alloc_pct |-> 50],
      [allocation_mode |-> "simple", global_alloc_pct |-> 80],
      [allocation_mode |-> "advanced"] }

PlainUnits(names) ==
    [unit_name : names, current_total_hc : 0..MaxHc,
     hc_growth_pct : GrowthValues, attrition_pct : AttritionValues,
     business_priority : {Some("High")}]

\* units as the loader builds them, and units whose seat_alloc_pct was assigned
DemandUnits ==
    PlainUnits({"A"})
    \cup { u @@ [seat_alloc_pct |-> p] : u \in PlainUnits({"A"}), p \in SeatAllocValues }

Profiles(names) ==
    { a \in [unit_name : names, monthly_median_hc : 0..MaxHc,
             monthly_max_hc : 0..(MaxHc + 1), avg_rto_days_per_week : RtoValues,
             attendance_stability : StabilityValues] :
        a.monthly_median_hc <= a.monthly_max_hc }

NoResult == Raised("not called")

\* the variables of the other components, at rest
DemandIdle ==
    /\ unit = [unit_name |-> "A", current_total_hc |-> 0, hc_growth_pct |-> 0,
               attrition_pct |-> 0, business_priority |-> None]
    /\ att = [unit_name |-> "A", monthly_median_hc |-> 0, monthly_max_hc |-> 0,
              avg_rto_days_per_week |-> 0, attendance_stability |-> None]
    /\ horizon = 0
    /\ rec = NoResult

DistributeIdle ==
    /\ units = << >>
    /\ allocations = << >>
    /\ total_supply = 0

\* optimize_allocation's defaults
NoArgs ==
    [objective |-> "optimal_placement", attendance_map |-> << >>,
     target_rto_days |-> None, max_floors_per_unit |-> None,
     pinned_tower_ids |-> << >>, min_guarantee_pct |-> None]

NotOptimized == [status |-> "not run"]

OptIdle ==
    /\ opt_args = NoArgs
    /\ opt_result = NotOptimized
    /\ solves = << >>

NoScenario ==
    [planning_horizon_months |-> 6, is_locked |-> FALSE, unit_overrides |-> << >>,
     params |-> [global_rto_mandate_days |-> None, excluded_floors |-> {},
                 capacity_reduction_pct |-> 0],
     allocation_results |-> << >>, floor_assignments |-> << >>, last_run_at |-> None]

ScenarioIdle ==
    /\ heap = << >>
    /\ scenario = NoScenario
    /\ ret = Raised("not called")
    /\ runs = << >>

NoSession ==
    [scenarios |-> << >>, active_scenario_id |-> "baseline", optimization_result |-> None]

NotPlacing == [pc |-> "not called"]

AppIdle ==
    /\ session = NoSession
    /\ procs = << >>
    /\ placing = NotPlacing

SpatialIdle ==
    /\ floors = << >>
    /\ excluded = {}
    /\ assignments = << >>
    /\ fragmentation = << >>

DemandInit ==
    /\ op = "init"
    /\ unit \in DemandUnits
    /\ att \in Profiles({"A"})
    /\ horizon \in HorizonValues
    /\ rule_config \in RuleConfigs
    /\ rec = NoResult
    /\ DistributeIdle
    /\ SpatialIdle
    /\ OptIdle
    /\ ScenarioIdle
    /\ AppIdle

ComputeSimple ==
    /\ rec' = compute_simple_allocation(unit, horizon, rule_config)
    /\ op' = "compute_simple_allocation"
    /\ UNCHANGED <<unit, att, horizon, rule_config, units, allocations, total_supply>>
    /\ UNCHANGED spatialVars
    /\ UNCHANGED optVars
    /\ UNCHANGED scenarioVars
    /\ UNCHANGED appVars

ComputeRecommended ==
    /\ rec' = compute_recommended_allocation(unit, att, horizon, rule_config)
    /\ op' = "compute_recommended_allocation"
    /\ UNCHANGED <<unit, att, horizon, rule_config, units, allocations, total_supply>>
    /\ UNCHANGED spatialVars
    /\ UNCHANGED optVars
    /\ UNCHANGED scenarioVars
    /\ UNCHANGED appVars

\* compute_all_allocations for the one unit and its profile; rec is the
\* element of the returned list
ComputeAll ==
    /\ \E r \in {compute_all_allocations(<<unit>>, horizon, rule_config)} :
          rec' = IF r.raised # "no" THEN Raised(r.raised) ELSE Returned(r.value[1])
    /\ op' = "compute_all_allocations"
    /\ UNCHANGED <<unit, att, horizon, rule_config, units, allocations, total_supply>>
    /\ UNCHANGED spatialVars
    /\ UNCHANGED optVars
    /\ UNCHANGED scenarioVars
    /\ UNCHANGED appVars

DemandNext == ComputeSimple \/ ComputeRecommended \/ ComputeAll

SpecDemand == DemandInit /\ [][DemandNext]_vars

DemandCalled == op \in {"compute_simple_allocation", "compute_recommended_allocation"}

ValidBounds(cfg) ==
    CfgGet(cfg, "min_alloc_pct", MIN_ALLOC_PCT) <= CfgGet(cfg, "max_alloc_pct", MAX_ALLOC_PCT)

InBounds(pct, cfg) ==
    /\ QLe(Q(CfgGet(cfg, "min_alloc_pct", MIN_ALLOC_PCT), 100), pct)
    /\ QLe(pct, Q(CfgGet(cfg, "max_alloc_pct", MAX_ALLOC_PCT), 100))

C7_ZeroHeadcount ==
    (DemandCalled /\ unit.current_total_hc = 0)
        => /\ rec.raised = "no"
           /\ rec.value.recommended_alloc_pct = QInt(0)
           /\ rec.value.effective_demand_seats = 0

C7_Witness ==
    /\ op = "compute_recommended_allocation"
    /\ unit.current_total_hc = 0
    /\ att.monthly_max_hc > 0
    /\ ~HasAttr(unit, "seat_alloc_pct")
    /\ rec.value.effective_demand_seats = 0

\* the fraction the mode of the last call returns for unit u
FractionOf(u) ==
    IF op = "compute_simple_allocation"
    THEN compute_simple_allocation(u, horizon, rule_config)
    ELSE compute_recommended_allocation(u, att, horizon, rule_config)

\* C8: all else fixed, a larger growth fraction never yields a smaller
\* recommended fraction and a larger attrition fraction never a larger one.
C8_Monotone ==
    (DemandCalled /\ rec.raised = "no") =>
        /\ \A g \in GrowthValues :
              g >= unit.hc_growth_pct =>
                 QLe(rec.value.recommended_alloc_pct,
                     FractionOf([unit EXCEPT !.hc_growth_pct = g]).value.recommended_alloc_pct)
        /\ \A t \in AttritionValues :
              t >= unit.attrition_pct =>
                 QLe(FractionOf([unit EXCEPT !.attrition_pct = t]).value.recommended_alloc_pct,
                     rec.value.recommended_alloc_pct)

\* a call whose fraction strictly grows with growth and strictly falls with attrition
C8_Witness ==
    /\ DemandCalled /\ rec.raised = "no" /\ unit.current_total_hc > 0
    /\ \E g \in GrowthValues :
          /\ g > unit.hc_growth_pct
          /\ QLt(rec.value.recommended_alloc_pct,
                 FractionOf([unit EXCEPT !.hc_growth_pct = g]).value.recommended_alloc_pct)
    /\ \E t \in AttritionValues :
          /\ t > unit.attrition_pct
          /\ QLt(FractionOf([unit EXCEPT !.attrition_pct = t]).value.recommended_alloc_pct,
                 rec.value.recommended_alloc_pct)

-----------------------------------------------------------------------------
(* distribute_seats on its own *)

UnitNames == <<"A", "B", "C">>

\* growth and attrition of a growing, a steady and a shrinking unit
NetProfiles == {<<30, 0>>, <<0, 0>>, <<0, 40>>}

DistUnit(name, net, prio) ==
    [unit_name |-> name, current_total_hc |-> MaxHc,
     hc_growth_pct |-> net[1], attrition_pct |-> net[2], business_priority |-> prio]

DistConfigs == { << >>, [shrink_contribution_factor |-> 150] }

DistributeInit ==
    /\ op = "init"
    /\ DemandIdle
    /\ rule_config \in DistConfigs
    /\ \E nets \in [1..Len(UnitNames) -> NetProfiles],
          prios \in [1..Len(UnitNames) -> {Some("Low"), None}] :
          /\ prios[1] = None
          /\ units = [i \in 1..Len(UnitNames) |-> DistUnit(UnitNames[i], nets[i], prios[i])]
    /\ \E demands \in [1..Len(UnitNames) -> 0..MaxDemand] :
          allocations = [i \in 1..Len(UnitNames) |->
                            Recommendation(UnitNames[i], Q(DEFAULT_GLOBAL_ALLOC_PCT, 100), demands[i])]
    /\ total_supply \in 0..MaxSupply
    /\ SpatialIdle
    /\ OptIdle
    /\ ScenarioIdle
    /\ AppIdle

Distribute ==
    /\ allocations' = distribute_seats(allocations, units, total_supply, rule_config)
    /\ op' = "distribute_seats"
    /\ UNCHANGED <<unit, att, horizon, rule_config, rec, units, total_supply>>
    /\ UNCHANGED spatialVars
    /\ UNCHANGED optVars
    /\ UNCHANGED scenarioVars
    /\ UNCHANGED appVars

DistributeNext == Distribute

SpecDistribute == DistributeInit /\ [][DistributeNext]_vars

\* C3: without scarcity every unit gets exactly its demand with gap 0; under
\* scarcity the total allocated is at most the supply, no unit gets more than
\* its release-reduced demand, and each gap is allocated - demand <= 0.
C3_Conservation ==
    [][Distribute =>
          IF TotalDemand(allocations) <= total_supply
          THEN /\ \A i \in DOMAIN allocations :
                     /\ allocations'[i].allocated_seats = allocations[i].effective_demand_seats
                     /\ allocations'[i].effective_demand_seats = allocations[i].effective_demand_seats
                     /\ allocations'[i].seat_gap = 0
               /\ TotalAllocated(allocations') = TotalDemand(allocations)
          ELSE /\ TotalAllocated(allocations') <= total_supply
               /\ \A i \in DOMAIN allocations :
                     /\ allocations'[i].effective_demand_seats <= allocations[i].effective_demand_seats
                     /\ allocations'[i].allocated_seats <= allocations'[i].effective_demand_seats
                     /\ allocations'[i].seat_gap =
                            allocations'[i].allocated_seats - allocations'[i].effective_demand_seats
                     /\ allocations'[i].seat_gap <= 0
    ]_vars

\* scarcity with a release: some unit's demand was reduced and some unit is short
C3_Witness ==
    /\ op = "distribute_seats"
    /\ TotalDemand(allocations) > total_supply
    /\ \E i \in DOMAIN allocations : allocations[i].seat_gap < 0
    /\ \E i \in DOMAIN allocations :
          /\ net_hc_change_pct(units[i]) < 0
          /\ allocations[i].allocated_seats > 0
          /\ allocations[i].seat_gap = 0

-----------------------------------------------------------------------------
(* assign_units_to_floors on its own *)

\* three floors in two towers of one building
FloorPlan ==
    <<[building_id |-> "B1", tower_id |-> "B1-T1", floor_number |-> 1],
      [building_id |-> "B1", tower_id |-> "B1-T1", floor_number |-> 2],
      [building_id |-> "B1", tower_id |-> "B1-T2", floor_number |-> 1]>>

Floor(i, seats) ==
    [building_id |-> FloorPlan[i].building_id, building_name |-> "HQ",
     tower_id |-> FloorPlan[i].tower_id, floor_number |-> FloorPlan[i].floor_number,
     total_seats |-> seats]

\* the floor lists whose i-th floor has a capacity in caps[i]
FloorLists(caps) ==
    { [i \in 1..Len(FloorPlan) |-> Floor(i, c[i])] :
         c \in {d \in [1..Len(FloorPlan) -> UNION {caps[i] : i \in 1..Len(FloorPlan)}] :
                   \A i \in 1..Len(FloorPlan) : d[i] \in caps[i]} }

FloorIds == {floor_id(FloorPlan[i]) : i \in 1..Len(FloorPlan)}

Placed(a, seats) == [a EXCEPT !.allocated_seats = seats]

SpatialInit ==
    /\ op = "init"
    /\ DemandIdle
    /\ rule_config = << >>
    /\ units = << >>
    /\ total_supply = 0
    /\ \E seats \in [1..Len(UnitNames) -> 0..MaxSeats] :
          allocations = [i \in 1..Len(UnitNames) |->
                            Placed(Recommendation(UnitNames[i], Q(DEFAULT_GLOBAL_ALLOC_PCT, 100),
                                                  seats[i]), seats[i])]
    /\ floors \in FloorLists(<<0..MaxCap, 0..MaxCap, 0..MaxCap>>)
    /\ excluded \in SUBSET FloorIds
    /\ assignments = << >>
    /\ fragmentation = << >>
    /\ OptIdle
    /\ ScenarioIdle
    /\ AppIdle

AssignFloors ==
    \E r \in {assign_units_to_floors(allocations, floors, excluded)} :
        /\ assignments' = r.assignments
        /\ fragmentation' = r.fragmentation_scores
        /\ allocations' = r.allocations
        /\ op' = "assign_units_to_floors"
        /\ UNCHANGED <<rule_config, units, total_supply, floors, excluded>>
        /\ UNCHANGED demandVars
        /\ UNCHANGED optVars
        /\ UNCHANGED scenarioVars
        /\ UNCHANGED appVars

SpatialNext == AssignFloors

SpecSpatial == SpatialInit /\ [][SpatialNext]_vars


Capacity(fl, excl) ==
    SumOver([i \in DOMAIN fl |-> fl[i].total_seats],
            {i \in DOMAIN fl : floor_id(fl[i]) \notin excl})

\* C2: every unit's placed seats are at most its allocated_seats, and equal
\* them for every unit when the non-excluded capacity covers all allocations.
C2_PlacementConservation ==
    op = "assign_units_to_floors" =>
        /\ \A i \in DOMAIN allocations :
              SeatsOfUnit(assignments, allocations[i].unit_name) <= allocations[i].allocated_seats
        /\ Capacity(floors, excluded) >= TotalAllocated(allocations) =>
              \A i \in DOMAIN allocations :
                 SeatsOfUnit(assignments, allocations[i].unit_name) = allocations[i].allocated_seats

\* capacity suffices only by spreading a unit over two floors, one floor excluded
C2_Witness ==
    /\ op = "assign_units_to_floors"
    /\ excluded # {}
    /\ Capacity(floors, excluded) = TotalAllocated(allocations)
    /\ \A i \in DOMAIN allocations :
          /\ allocations[i].allocated_seats > 0
          /\ SeatsOfUnit(assignments, allocations[i].unit_name) = allocations[i].allocated_seats
    /\ Len(assignments) > Len(allocations)

-----------------------------------------------------------------------------
(* The optimization tab: the heuristic's placement is the optimizer's baseline *)

OptNames == <<"A", "B">>

OptProfile ==
    [unit_name |-> "A", monthly_median_hc |-> 2, monthly_max_hc |-> 2,
     avg_rto_days_per_week |-> 25, attendance_stability |-> None]

OptArgChoices ==
    { NoArgs,
      [NoArgs EXCEPT !.objective = "rto_based", !.attendance_map = [A |-> OptProfile]],
      [NoArgs EXCEPT !.objective = "rto_whatif", !.attendance_map = [A |-> OptProfile],
                     !.target_rto_days = Some(50)],
      [NoArgs EXCEPT !.objective = "rto_whatif", !.attendance_map = [A |-> OptProfile]],
      [NoArgs EXCEPT !.max_floors_per_unit = Some(1)],
      [NoArgs EXCEPT !.pinned_tower_ids = [A |-> {"B1-T2"}]],
      [NoArgs EXCEPT !.min_guarantee_pct = Some(100)],
      [NoArgs EXCEPT !.min_guarantee_pct = Some(50), !.max_floors_per_unit = Some(1),
                     !.pinned_tower_ids = [B |-> {"B1-T1"}]] }

OptimizerInit ==
    /\ op = "init"
    /\ DemandIdle
    /\ rule_config = << >>
    /\ units = << >>
    /\ total_supply = 0
    /\ \E seats \in [1..Len(OptNames) -> 0..MaxOptDemand] :
          allocations = [i \in 1..Len(OptNames) |->
                            Placed(Recommendation(OptNames[i], Q(DEFAULT_GLOBAL_ALLOC_PCT, 100),
                                                  seats[i]), seats[i])]
    /\ floors \in FloorLists(<<0..MaxOptCap, {1}, {0, MaxOptCap}>>)
    /\ excluded \in {{}, {<<"B1-T1", 2>>}}
    /\ assignments = << >>
    /\ fragmentation = << >>
    /\ opt_args \in OptArgChoices
    /\ opt_result = NotOptimized
    /\ solves = << >>
    /\ ScenarioIdle
    /\ AppIdle

\* floors and excluded ids as the caller hands them over
Optimize ==
    /\ \E c \in OptimizeCalls(allocations, floors, assignments, excluded,
                               opt_args, rule_config) :
          /\ opt_result' = c.result
          /\ solves' = c.solves
    /\ op' = "optimize_allocation"
    /\ UNCHANGED <<rule_config, units, allocations, total_supply, opt_args>>
    /\ UNCHANGED demandVars
    /\ UNCHANGED spatialVars
    /\ UNCHANGED scenarioVars
    /\ UNCHANGED appVars

OptimizerNext == AssignFloors \/ Optimize

SpecOptimizer == OptimizerInit /\ [][OptimizerNext]_vars

\* no floor of fl holds more than its total_seats in asg, an excluded one holds none
WithinFloors(asg, fl, excl) ==
    \A j \in DOMAIN fl :
       /\ SeatsOnFloorOf(asg, fl[j]) <= fl[j].total_seats
       /\ floor_id(fl[j]) \in excl => SeatsOnFloorOf(asg, fl[j]) = 0

OptimalReturned == op = "optimize_allocation" /\ opt_result.status = "Optimal"

\* C1: in the list assign_units_to_floors returns and in the assignments of an
\* Optimal optimize_allocation result, the seats on a floor summed over all
\* units never exceed the floor's capacity as passed in, and an excluded floor
\* gets no seats.
C1_FloorCapacity ==
    /\ op # "init" => WithinFloors(assignments, floors, excluded)
    /\ OptimalReturned => WithinFloors(opt_result.assignments, floors, excluded)

\* demand exceeds what the non-excluded floors hold: the heuristic has filled a
\* floor to its last seat, the optimizer then fills one shared by two units, and
\* the excluded floor had seats to offer
C1_Witness ==
    /\ OptimalReturned
    /\ \E j \in DOMAIN floors :
          /\ floor_id(floors[j]) \in excluded
          /\ floors[j].total_seats > 0
    /\ \E j \in DOMAIN floors :
          /\ floors[j].total_seats > 0
          /\ SeatsOnFloorOf(assignments, floors[j]) = floors[j].total_seats
    /\ \E j \in DOMAIN floors :
          /\ SeatsOnFloorOf(opt_result.assignments, floors[j]) = floors[j].total_seats
          /\ Cardinality({opt_result.assignments[k].unit_name :
                             k \in {n \in DOMAIN opt_result.assignments :
                                       <<opt_result.assignments[n].tower_id,
                                         opt_result.assignments[n].floor_number>>
                                           = floor_id(floors[j])}}) = 2
    /\ TotalAllocated(allocations) > Capacity(floors, excluded)

\* C4: under each objective, the seats an Optimal result gives a unit over all
\* floors are at most the unit's demand basis for that objective.
C4_DemandCap ==
    OptimalReturned =>
        \A i \in DOMAIN allocations :
           /\ opt_result.unit_allocations[allocations[i].unit_name]
                 <= DemandBasis(allocations, opt_args, rule_config)[i]
           /\ SeatsOfUnit(opt_result.assignments, allocations[i].unit_name)
                 <= DemandBasis(allocations, opt_args, rule_config)[i]

\* an attendance-derived basis below the unit's effective demand binds: the
\* unit gets exactly the basis although the floors could hold its whole demand
C4_Witness ==
    /\ OptimalReturned
    /\ opt_args.objective = "rto_based"
    /\ \E i \in DOMAIN allocations :
          LET basis == DemandBasis(allocations, opt_args, rule_config)[i]
          IN  /\ basis < allocations[i].effective_demand_seats
              /\ opt_result.unit_allocations[allocations[i].unit_name] = basis
              /\ Capacity(floors, excluded) >= TotalDemand(allocations)

-----------------------------------------------------------------------------
(* The scenario engine on loaded base data *)

\* the references the session state holds: base units, the base attendance
\* map and its profile, base floors
Base ==
    [units |-> <<1, 2>>, profile |-> 3, attendance_map |-> 4, floors |-> <<5, 6, 7>>]

BaseRefs ==
    {Base.units[i] : i \in DOMAIN Base.units} \cup {Base.profile, Base.attendance_map}
        \cup {Base.floors[i] : i \in DOMAIN Base.floors}

ScnNames == <<"A", "B">>

\* what is still referenced once a call has returned: base data and roots
Live(h, roots) == [a \in BaseRefs \cup roots |-> h[a]]

ScnUnit(name, hc, attrition) ==
    [unit_name |-> name, current_total_hc |-> hc, hc_growth_pct |-> 0,
     attrition_pct |-> attrition, business_priority |-> None]

\* unit A as loaded, or after the admin tab assigned its seat_alloc_pct
ScnUnitsA ==
    LET plain == {ScnUnit("A", hc, a) : hc \in 0..MaxScnHc, a \in {0, 40}}
    IN  plain \cup {u @@ [seat_alloc_pct |-> p] : u \in plain, p \in {None, Some(90)}}

ScnUnitsB ==
    {ScnUnit("B", hc, 0) @@ [seat_alloc_pct |-> None] : hc \in 1..MaxScnHc}

ScnProfile ==
    [unit_name |-> "A", monthly_median_hc |-> 2, monthly_max_hc |-> 2,
     avg_rto_days_per_week |-> 25, attendance_stability |-> None]

ScnOverrides ==
    { << >>,
      [A |-> [ScenarioOverride("A") EXCEPT !.hc_growth_pct = Some(30)]],
      [A |-> [ScenarioOverride("A") EXCEPT !.attrition_pct = Some(40), !.median_hc = Some(1),
                                           !.max_hc = Some(3), !.avg_rto_days = Some(50)]],
      [A |-> [ScenarioOverride("A") EXCEPT !.alloc_pct_override = Some(200)]],
      [A |-> [ScenarioOverride("A") EXCEPT !.alloc_pct_override = Some(10)]],
      [B |-> [ScenarioOverride("B") EXCEPT !.alloc_pct_override = Some(100),
                                           !.hc_growth_pct = Some(10)]],
      [Z |-> [ScenarioOverride("Z") EXCEPT !.alloc_pct_override = Some(50)]] }

ScnParams ==
    [global_rto_mandate_days : {None, Some(30)},
     excluded_floors : {{}, {<<"B1-T1", 2>>}},
     capacity_reduction_pct : {0, 50}]

ScnConfigs == { << >>, [min_alloc_pct |-> 50, max_alloc_pct |-> 100] }

ScenarioInit ==
    /\ op = "init"
    /\ DemandIdle
    /\ DistributeIdle
    /\ SpatialIdle
    /\ OptIdle
    /\ rule_config \in ScnConfigs
    /\ \E a \in ScnUnitsA, b \in ScnUnitsB, cap \in 1..MaxScnCap,
          m \in {<< >>, [A |-> Base.profile]} :
          heap = <<a, b, ScnProfile, m, Floor(1, cap), Floor(2, 1), Floor(3, 2)>>
    /\ \E o \in ScnOverrides, p \in ScnParams :
          scenario = [NoScenario EXCEPT !.unit_overrides = o, !.params = p]
    /\ ret = Raised("not called")
    /\ runs = << >>
    /\ AppIdle

othersUnchanged ==
    /\ UNCHANGED <<rule_config, units, allocations, total_supply>>
    /\ UNCHANGED appVars
    /\ UNCHANGED demandVars
    /\ UNCHANGED spatialVars
    /\ UNCHANGED optVars

Range(seq) == {seq[i] : i \in DOMAIN seq}

\* what the caller reaches from the pair apply_overrides returned
ReturnedRefs(r) ==
    Range(r.units) \cup {r.attendance_map}
        \cup {r.heap[r.attendance_map][nm] : nm \in DOMAIN r.heap[r.attendance_map]}

ApplyOverrides ==
    \E r \in {apply_overrides(Live(heap, {}), Base.units, Base.attendance_map, scenario)} :
        /\ heap' = Live(r.heap, ReturnedRefs(r))
        /\ ret' = Returned([units |-> r.units, attendance_map |-> r.attendance_map])
        /\ op' = "apply_overrides"
        /\ UNCHANGED <<scenario, runs>>
        /\ othersUnchanged

ApplyFloorModifications ==
    \E r \in {apply_floor_modifications(Live(heap, {}), Base.floors, scenario)} :
        /\ heap' = Live(r.heap, Range(r.floors))
        /\ ret' = Returned(r.floors)
        /\ op' = "apply_floor_modifications"
        /\ UNCHANGED <<scenario, runs>>
        /\ othersUnchanged

\* run_scenario on the base data of the session.  Its locals (the copies, the
\* recommendations) are gone when it returns or raises; the scenario keeps the
\* results only when it returns.
RunScenario ==
    /\ Len(runs) < MaxRuns
    /\ \E ao \in {apply_overrides(Live(heap, {}), Base.units, Base.attendance_map, scenario)} :
       \E fm \in {apply_floor_modifications(ao.heap, Base.floors, scenario)} :
       \E us \in {[i \in DOMAIN ao.units |-> fm.heap[ao.units[i]]]} :
       \E fl \in {[i \in DOMAIN fm.floors |-> fm.heap[fm.floors[i]]]} :
       \E allocated \in {run_allocation(us, fl, scenario.planning_horizon_months,
                                        rule_config)} :
          /\ heap' = Live(fm.heap, {})
          /\ op' = "run_scenario"
          /\ othersUnchanged
          /\ IF allocated.raised # "no"
             THEN /\ ret' = Raised(allocated.raised)
                  /\ UNCHANGED <<scenario, runs>>
             ELSE \E overridden \in {[i \in DOMAIN allocated.value |->
                                        OverrideAllocation(allocated.value[i], us, scenario)]} :
                  \E redistributed \in {distribute_seats(overridden, us, TotalSeats(fl),
                                                         rule_config)} :
                  \E placed \in {assign_units_to_floors(redistributed, fl,
                                                        scenario.params.excluded_floors)} :
                  \E stored \in {[allocation_results |-> placed.allocations,
                                  floor_assignments |->
                                      StoredAssignments(scenario.floor_assignments,
                                                        placed.assignments)]} :
                     /\ scenario' = [scenario EXCEPT
                                        !.allocation_results = stored.allocation_results,
                                        !.floor_assignments = stored.floor_assignments]
                     /\ runs' = Append(runs, stored)
                     /\ ret' = Returned("scenario")

ScenarioNext == ApplyOverrides \/ ApplyFloorModifications \/ RunScenario

SpecScenario == ScenarioInit /\ [][ScenarioNext]_vars

RunReturned == op = "run_scenario" /\ ret.raised = "no"

\* C5: in the results run_scenario stores, the recommended fraction of every
\* unit with headcount > 0 lies in [min_alloc_pct, max_alloc_pct], a fraction set
\* by an allocation-fraction override included.
C5_StoredFractionWithinBounds ==
    RunReturned =>
        \A i \in DOMAIN scenario.allocation_results :
           heap[Base.units[i]].current_total_hc > 0 =>
              InBounds(scenario.allocation_results[i].recommended_alloc_pct, rule_config)

\* C9: the run_scenario calls made on one scenario over unchanged base data and
\* configuration all store the same recommendations and the same floor
\* assignments.
C9_SameResults ==
    \A i, j \in DOMAIN runs : runs[i] = runs[j]

\* a second run of a scenario that carries an override, under scarcity, after
\* the first run stored its recommendations and floor assignments
C9_Witness ==
    /\ op = "run_scenario"
    /\ Len(runs) = MaxRuns
    /\ scenario.unit_overrides # << >>
    /\ runs[1].floor_assignments # << >>
    /\ \E i \in DOMAIN runs[2].allocation_results :
          runs[2].allocation_results[i].seat_gap < 0

\* C10: no step of apply_overrides, apply_floor_modifications or run_scenario
\* changes a base Unit, a base AttendanceProfile, the base attendance map or a
\* base Floor.
C10_BaseUnchanged ==
    [][\A a \in BaseRefs : heap'[a] = heap[a]]_vars

\* apply_overrides returned a unit and a profile that differ from the base
\* objects they were copied from, in a map that is not the base map
C10_Witness ==
    /\ op = "apply_overrides"
    /\ \E i \in DOMAIN Base.units : heap[ret.value.units[i]] # heap[Base.units[i]]
    /\ ret.value.attendance_map # Base.attendance_map
    /\ \E nm \in DOMAIN heap[Base.attendance_map] :
          /\ heap[ret.value.attendance_map][nm] # heap[Base.attendance_map][nm]
          /\ heap[heap[ret.value.attendance_map][nm]] # heap[heap[Base.attendance_map][nm]]

-----------------------------------------------------------------------------
(* The solves of one optimize_allocation call *)

OptimizeCalled == op = "optimize_allocation"

C12_FailureReturned ==
    (OptimizeCalled /\ solves[Len(solves)].status # "Optimal") =>
       /\ opt_result.status = solves[Len(solves)].status
       /\ opt_result.message.text = "Optimization could not find a solution"
       /\ opt_result.message.status = solves[Len(solves)].status
       /\ opt_result.assignments = << >>
       /\ opt_result.unit_allocations = << >>
       /\ opt_result.before_after = << >>
       /\ opt_result.consolidation_suggestions = << >>
       /\ opt_result.savings_summary = None

\* a call that gave up after the retry without the guarantees
C12_Witness ==
    /\ OptimizeCalled
    /\ Len(solves) = 2
    /\ solves[2].status = "Not Solved"
    /\ opt_result.status = "Not Solved"

-----------------------------------------------------------------------------
(* The demand mode of the pipeline *)

SameRecommendation(a, b) ==
    /\ ~QLt(a.recommended_alloc_pct, b.recommended_alloc_pct)
    /\ ~QLt(b.recommended_alloc_pct, a.recommended_alloc_pct)
    /\ a.effective_demand_seats = b.effective_demand_seats

\* C13: compute_all_allocations gives each unit the result of the
\* attendance-derived formula when rule_config has allocation_mode "advanced",
\* and the result of the flat formula when the mode is "simple" or absent.
C13_ModeRouting ==
    (op = "compute_all_allocations" /\ rec.raised = "no") =>
       IF CfgGet(rule_config, "allocation_mode", "simple") = "advanced"
       THEN SameRecommendation(
                rec.value,
                compute_recommended_allocation(unit, att, horizon, rule_config).value)
       ELSE SameRecommendation(
                rec.value,
                compute_simple_allocation(unit, horizon, rule_config).value)

StrictlyInBounds(pct, cfg) ==
    /\ QLt(Q(CfgGet(cfg, "min_alloc_pct", MIN_ALLOC_PCT), 100), pct)
    /\ QLt(pct, Q(CfgGet(cfg, "max_alloc_pct", MAX_ALLOC_PCT), 100))

\* the profile with its stability unset
Unrated(a) == [a EXCEPT !.attendance_stability = None]

\* C14: in the attendance-derived mode, a unit whose attendance stability is
\* above stability_discount_threshold, whose max attendance is above the
\* median and whose fraction is not at a clamp bound gets a strictly lower
\* fraction than the same unit with the stability unset.
C14_StabilityDiscount ==
    ( /\ op = "compute_recommended_allocation"
      /\ unit.current_total_hc > 0
      /\ att.attendance_stability # None
      /\ Val(att.attendance_stability) >
            CfgGet(rule_config, "stability_discount_threshold", STABILITY_DISCOUNT_THRESHOLD)
      /\ att.monthly_max_hc > att.monthly_median_hc
      /\ CfgGet(rule_config, "peak_buffer_multiplier", PEAK_BUFFER_MULTIPLIER) > 0
      /\ StrictlyInBounds(rec.value.recommended_alloc_pct, rule_config)
      /\ StrictlyInBounds(
             compute_recommended_allocation(unit, Unrated(att), horizon,
                                            rule_config).value.recommended_alloc_pct,
             rule_config) )
    => QLt(rec.value.recommended_alloc_pct,
           compute_recommended_allocation(unit, Unrated(att), horizon,
                                          rule_config).value.recommended_alloc_pct)

-----------------------------------------------------------------------------
(* The fragmentation score *)

UnitInterval(q) == QLe(QInt(0), q) /\ QLe(q, QInt(1))

\* C15: the fragmentation score assign_units_to_floors returns for a unit and
\* writes to its recommendation lies in [0, 1], also when the floors run out
\* of seats, and is 0 for a unit with 0 allocated seats.
C15_FragmentationRange ==
    op = "assign_units_to_floors" =>
       \A i \in DOMAIN allocations :
          /\ UnitInterval(fragmentation[allocations[i].unit_name])
          /\ UnitInterval(allocations[i].fragmentation_score)
          /\ allocations[i].allocated_seats = 0 =>
                fragmentation[allocations[i].unit_name] = QInt(0)

-----------------------------------------------------------------------------
(* The order of the proportional walk *)

\* C16: under scarcity, of two units with equal demand after the release, the
\* one with the smaller sort key (higher priority tier, or the same tier and a
\* larger net head count change) is allocated at least as many seats.
C16_EarlierGetsNoLess ==
    [][(Distribute /\ TotalDemand(allocations) > total_supply) =>
          \A i, j \in DOMAIN allocations :
             ( /\ KeyLess(sort_key(allocations[i], units), sort_key(allocations[j], units))
               /\ allocations'[i].effective_demand_seats
                     = allocations'[j].effective_demand_seats )
             => allocations'[i].allocated_seats >= allocations'[j].allocated_seats
    ]_vars

-----------------------------------------------------------------------------
(* The optimizer on floors of many seats *)

\* tests/test_optimizer.py, test_fair_distribution_under_scarcity
ExampleDemand == 120
ExampleSupply == 200
FairTolerance == 10

WideAlloc(name, demand) ==
    Placed(Recommendation(name, Q(DEFAULT_GLOBAL_ALLOC_PCT, 100), demand), demand)

\* a baseline that has unit A on both floors of tower B1-T1
SplitBaseline ==
    <<FloorAssignment("A", FloorPlan[1], MaxWideCap \div 2, "new_placement"),
      FloorAssignment("A", FloorPlan[2], MaxWideCap \div 2, "same_tower")>>

\* one unit on the three floors of the plan, or two units of equal demand on
\* one floor
WideInit ==
    /\ op = "init"
    /\ DemandIdle
    /\ rule_config = << >>
    /\ units = << >>
    /\ total_supply = 0
    /\ \/ /\ \E d \in (MaxWideDemand - 2)..MaxWideDemand :
                allocations = <<WideAlloc("A", d)>>
          /\ floors \in FloorLists(<<{0, MaxWideCap \div 2}, {0, MaxWideCap \div 2},
                                     {0, MaxWideCap}>>)
          /\ assignments \in {<< >>, SplitBaseline}
          /\ opt_args \in {NoArgs, [NoArgs EXCEPT !.max_floors_per_unit = Some(1)],
                           [NoArgs EXCEPT !.min_guarantee_pct = Some(100)]}
       \/ /\ allocations = <<WideAlloc("A", ExampleDemand), WideAlloc("B", ExampleDemand)>>
          /\ floors = <<Floor(1, ExampleSupply)>>
          /\ assignments = << >>
          /\ opt_args = NoArgs
    /\ excluded = {}
    /\ fragmentation = << >>
    /\ opt_result = NotOptimized
    /\ solves = << >>
    /\ ScenarioIdle
    /\ AppIdle

WideNext == Optimize

SpecWide == WideInit /\ [][WideNext]_vars

\* the terms of the objective at a point x
TotalShortfall(x, allocs, avail, demand) ==
    SumOver([i \in DOMAIN allocs |->
                IF demand[i] > UnitTotal(x, avail, i)
                THEN demand[i] - UnitTotal(x, avail, i) ELSE 0], DOMAIN allocs)
PairsUsed(x, allocs, avail) ==
    SumOver([i \in DOMAIN allocs |-> FloorCount(x, avail, i)], DOMAIN allocs)
Cohesion(x, allocs, fl, avail, baseline) ==
    SumOver([pr \in (DOMAIN allocs) \X avail |->
                x[pr] * AdjacencyWeight(fl[pr[2]], baseline, allocs[pr[1]].unit_name)],
            (DOMAIN allocs) \X avail)

\* the point of the program that a list of assignments stands for
PointOf(asg, allocs, fl, avail) ==
    [pr \in (DOMAIN allocs) \X avail |->
        SumOver([k \in DOMAIN asg |-> asg[k].seats_assigned],
                {k \in DOMAIN asg : /\ asg[k].unit_name = allocs[pr[1]].unit_name
                                    /\ floor_id(asg[k]) = floor_id(fl[pr[2]])})]

\* x is at least as good as z in the order shortfall, then pairs, then cohesion
LexNoWorse(x, z, allocs, fl, avail, baseline, demand) ==
    LET sx == TotalShortfall(x, allocs, avail, demand)
        sz == TotalShortfall(z, allocs, avail, demand)
        px == PairsUsed(x, allocs, avail)
        pz == PairsUsed(z, allocs, avail)
    IN  \/ sx < sz
        \/ sx = sz /\ px < pz
        \/ /\ sx = sz
           /\ px = pz
           /\ Cohesion(x, allocs, fl, avail, baseline) >= Cohesion(z, allocs, fl, avail, baseline)

\* C17: an Optimal result is lexicographically optimal over the feasible
\* points of the last solve: least total unmet demand, then fewest (unit,
\* floor) pairs holding seats, then most adjacency-weighted cohesion.
C17_LexicographicOptimum ==
    OptimalReturned =>
       \E avail \in {AvailableFloors(floors, excluded)} :
       \E demand \in {DemandBasis(allocations, opt_args, rule_config)} :
       \E x \in {PointOf(opt_result.assignments, allocations, floors, avail)} :
          \A z \in FeasibleSet(allocations, floors, avail, opt_args, demand,
                               GuaranteedIn(solves[Len(solves)].constraints)) :
             LexNoWorse(x, z, allocations, floors, avail, assignments, demand)

\* C18: with objective optimal_placement, no baseline and less capacity than
\* total demand, an Optimal result gives two units of equal demand seat totals
\* that sum to at most the capacity and differ by at most 10 seats.
C18_FairSplit ==
    ( /\ OptimalReturned
      /\ opt_args.objective = "optimal_placement"
      /\ assignments = << >>
      /\ Len(allocations) = 2
      /\ allocations[1].effective_demand_seats = allocations[2].effective_demand_seats
      /\ Capacity(floors, excluded) < TotalDemand(allocations) )
    => /\ SeatsOfUnit(opt_result.assignments, "A") + SeatsOfUnit(opt_result.assignments, "B")
             <= Capacity(floors, excluded)
       /\ Abs(SeatsOfUnit(opt_result.assignments, "A")
                - SeatsOfUnit(opt_result.assignments, "B")) <= FairTolerance

-----------------------------------------------------------------------------
(* The demand basis of the optimizer *)

\* the attendance-derived need at rto days a week (in tenths of a day):
\* (median + (max - median) * buffer) * rto / 5, rounded, at least 1
AttendanceNeed(a, rto, cfg) ==
    LET buffer == Q(CfgGet(cfg, "peak_buffer_multiplier", PEAK_BUFFER_MULTIPLIER), 100)
        heads == QAdd(QInt(a.monthly_median_hc),
                      QMul(QInt(a.monthly_max_hc - a.monthly_median_hc), buffer))
        need == QMul(heads, Q(rto, 10 * WORKING_DAYS_PER_WEEK))
        seats == PyRound(need.n, need.d)
    IN  IF seats > 1 THEN seats ELSE 1

\* C19: the demand an Optimal result reports for a unit is its
\* effective_demand_seats under optimal_placement, the attendance-derived need
\* at the unit's actual RTO days under rto_based, and the need at
\* target_rto_days under rto_whatif, which never falls when the target rises;
\* a unit without a profile, and rto_whatif without a target, fall back to
\* effective_demand_seats.
C19_DemandBasis ==
    OptimalReturned =>
       \A i \in DOMAIN allocations :
          \E u \in {allocations[i].unit_name} :
          \E basis \in {opt_result.before_after[i].Demand} :
             /\ opt_args.objective = "optimal_placement" =>
                   basis = allocations[i].effective_demand_seats
             /\ u \notin DOMAIN opt_args.attendance_map =>
                   basis = allocations[i].effective_demand_seats
             /\ (opt_args.objective = "rto_whatif" /\ opt_args.target_rto_days = None) =>
                   basis = allocations[i].effective_demand_seats
             /\ (opt_args.objective = "rto_based" /\ u \in DOMAIN opt_args.attendance_map) =>
                   basis = AttendanceNeed(opt_args.attendance_map[u],
                                          opt_args.attendance_map[u].avg_rto_days_per_week,
                                          rule_config)
             /\ ( /\ opt_args.objective = "rto_whatif"
                  /\ u \in DOMAIN opt_args.attendance_map
                  /\ opt_args.target_rto_days # None ) =>
                   /\ basis = AttendanceNeed(opt_args.attendance_map[u],
                                             Val(opt_args.target_rto_days), rule_config)
                   /\ \A t \in RtoValues :
                         t <= Val(opt_args.target_rto_days) =>
                            AttendanceNeed(opt_args.attendance_map[u], t, rule_config)
                               <= basis

\* a what-if target above the unit's actual RTO days raises its basis above
\* the need at the actual days, while the unit without a profile keeps its
\* effective demand
C19_Witness ==
    /\ OptimalReturned
    /\ opt_args.objective = "rto_whatif"
    /\ opt_args.target_rto_days # None
    /\ "A" \in DOMAIN opt_args.attendance_map
    /\ opt_result.before_after[1].Demand >
          AttendanceNeed(opt_args.attendance_map["A"],
                         opt_args.attendance_map["A"].avg_rto_days_per_week, rule_config)
    /\ opt_result.before_after[2].Demand = allocations[2].effective_demand_seats
    /\ allocations[2].effective_demand_seats > 0

-----------------------------------------------------------------------------
(* The adjacency tiers of the heuristic *)

\* the assignments made before the k-th one
Earlier(asg, k) == SubSeq(asg, 1, k - 1)

\* the tier of the table that the k-th assignment reaches through the earlier
\* assignments of its unit: 4 same floor, 3 adjacent floor of the same tower,
\* 2 same tower, 1 same building, 0 different building or no earlier assignment
TableTier(asg, k) ==
    LET mine == {n \in 1..(k - 1) : asg[n].unit_name = asg[k].unit_name}
    IN  IF \E n \in mine : floor_id(asg[n]) = floor_id(asg[k]) THEN 4
        ELSE IF \E n \in mine : /\ asg[n].tower_id = asg[k].tower_id
                                /\ Abs(asg[n].floor_number - asg[k].floor_number) = 1 THEN 3
        ELSE IF \E n \in mine : asg[n].tower_id = asg[k].tower_id THEN 2
        ELSE IF \E n \in mine : asg[n].building_id = asg[k].building_id THEN 1
        ELSE 0

\* the bonus compute_adjacency_tier gave the k-th assignment
BonusOf(asg, k) == compute_adjacency_tier(asg[k], Earlier(asg, k), asg[k].unit_name)[2]

\* C20: the bonus of a placement is strictly ordered along the tier table
\* same floor > adjacent floor of the same tower > same tower > same building
\* > different building, the best tier any earlier assignment of the unit
\* reaches being applied; a different building and a unit without an earlier
\* assignment get bonus 0.
C20_TierTable ==
    op = "assign_units_to_floors" =>
       \A k \in DOMAIN assignments :
          /\ TableTier(assignments, k) = 0 => BonusOf(assignments, k) = 0
          /\ \A l \in DOMAIN assignments :
                TableTier(assignments, k) > TableTier(assignments, l) =>
                   BonusOf(assignments, k) > BonusOf(assignments, l)

-----------------------------------------------------------------------------
(* The run timestamp *)

\* C21: a run_scenario call that returned has set the scenario's last_run_at,
\* together with the stored results: after any run last_run_at is not None
\* (and holds the time of the latest run).
C21_RunTimestamp ==
    RunReturned => scenario.last_run_at # None

-----------------------------------------------------------------------------
(* The application: the scenario lab, optimization and governance tabs acting
   on the scenarios of one session *)

AppIds == {"baseline", "s1"}

\* the overrides the scenario lab builds from the edited rows of the unit table
AppOverrides ==
    { << >>,
      [B |-> [ScenarioOverride("B") EXCEPT !.alloc_pct_override = Some(100)]] }

\* the ScenarioParams the scenario lab builds from its sliders and floor picker
AppParams ==
    { NoScenario.params,
      [NoScenario.params EXCEPT !.excluded_floors = {<<"B1-T1", 2>>},
                                !.capacity_reduction_pct = 30] }

AppOptArgs == {[NoArgs EXCEPT !.max_floors_per_unit = Some(1)]}

AppHeap ==
    <<ScnUnit("A", 2, 0) @@ [seat_alloc_pct |-> None],
      ScnUnit("B", 1, 0) @@ [seat_alloc_pct |-> None],
      ScnProfile, [A |-> Base.profile], Floor(1, 2), Floor(2, 1), Floor(3, 2)>>

AppInit ==
    /\ op = "init"
    /\ DemandIdle
    /\ DistributeIdle
    /\ SpatialIdle
    /\ OptIdle
    /\ rule_config = << >>
    /\ heap = AppHeap
    /\ scenario = NoScenario
    /\ ret = Raised("not called")
    /\ runs = << >>
    /\ session = [NoSession EXCEPT !.scenarios = [id \in AppIds |-> NoScenario]]
    /\ procs = << >>
    /\ placing = NotPlacing

appOthersUnchanged ==
    /\ UNCHANGED <<rule_config, units, allocations, total_supply>>
    /\ UNCHANGED <<scenario, ret, runs, procs, placing>>
    /\ UNCHANGED demandVars
    /\ UNCHANGED spatialVars
    /\ UNCHANGED optVars

get_active_scenario == session.scenarios[session.active_scenario_id]

update_scenario(id, scn) == [session EXCEPT !.scenarios[id] = scn]

\* a guard that lets the handlers edit a locked scenario as well
LockIgnored(scn) == TRUE

\* `not scenario.is_locked', the guard of the handlers that write a scenario
NotLocked(scn) == ~scn.is_locked

\* the sidebar's scenario selector
SetActive ==
    \E id \in DOMAIN session.scenarios :
        /\ session' = [session EXCEPT !.active_scenario_id = id]
        /\ op' = "set_active"
        /\ UNCHANGED heap
        /\ appOthersUnchanged

ToggleLock ==
    \E id \in DOMAIN session.scenarios \ {"baseline"} :
        /\ session' = update_scenario(id, [session.scenarios[id] EXCEPT
                                              !.is_locked = ~session.scenarios[id].is_locked])
        /\ op' = "toggle_lock"
        /\ UNCHANGED heap
        /\ appOthersUnchanged

remove_scenario(id) ==
    [session EXCEPT
        !.scenarios = [k \in DOMAIN session.scenarios \ {id} |-> session.scenarios[k]],
        !.active_scenario_id = IF session.active_scenario_id = id THEN "baseline" ELSE @]

DeleteScenario ==
    \E id \in {s \in DOMAIN session.scenarios :
                  s # "baseline" /\ NotLocked(session.scenarios[s])} :
        /\ session' = remove_scenario(id)
        /\ op' = "delete_scenario"
        /\ UNCHANGED heap
        /\ appOthersUnchanged

ResetScenario ==
    /\ NotLocked(get_active_scenario)
    /\ session' = update_scenario(session.active_scenario_id,
                                  [get_active_scenario EXCEPT
                                      !.unit_overrides = << >>,
                                      !.params = NoScenario.params,
                                      !.allocation_results = << >>,
                                      !.floor_assignments = << >>])
    /\ op' = "reset_scenario"
    /\ UNCHANGED heap
    /\ appOthersUnchanged

\* Run Simulation: the edited overrides and params are stored on the active
\* scenario, then run_scenario runs on it; if it raises, the scenario keeps the
\* edits and its earlier results
RunSimulation ==
    /\ NotLocked(get_active_scenario)
    /\ \E o \in AppOverrides, p \in AppParams :
       \E scn \in {[get_active_scenario EXCEPT !.unit_overrides = o, !.params = p]} :
       \E ao \in {apply_overrides(Live(heap, {}), Base.units, Base.attendance_map, scn)} :
       \E fm \in {apply_floor_modifications(ao.heap, Base.floors, scn)} :
       \E us \in {[i \in DOMAIN ao.units |-> fm.heap[ao.units[i]]]} :
       \E fl \in {[i \in DOMAIN fm.floors |-> fm.heap[fm.floors[i]]]} :
       \E allocated \in {run_allocation(us, fl, scn.planning_horizon_months, rule_config)} :
          /\ heap' = Live(fm.heap, {})
          /\ op' = "run_simulation"
          /\ appOthersUnchanged
          /\ IF allocated.raised # "no"
             THEN session' = update_scenario(session.active_scenario_id, scn)
             ELSE \E overridden \in {[i \in DOMAIN allocated.value |->
                                        OverrideAllocation(allocated.value[i], us, scn)]} :
                  \E redistributed \in {distribute_seats(overridden, us, TotalSeats(fl),
                                                         rule_config)} :
                  \E placed \in {assign_units_to_floors(redistributed, fl,
                                                        scn.params.excluded_floors)} :
                     session' = update_scenario(session.active_scenario_id,
                                    [scn EXCEPT
                                        !.allocation_results = placed.allocations,
                                        !.floor_assignments =
                                            StoredAssignments(scn.floor_assignments,
                                                              placed.assignments)])

\* Run Optimization, offered once the active scenario has allocation results,
\* locked or not: the result goes to the session, not to the scenario
RunOptimization ==
    /\ get_active_scenario.allocation_results # << >>
    /\ \E args \in AppOptArgs :
       \E fm \in {apply_floor_modifications(Live(heap, {}), Base.floors,
                                            get_active_scenario)} :
       \E ao \in {apply_overrides(fm.heap, Base.units, Base.attendance_map,
                                  get_active_scenario)} :
       \E fl \in {[i \in DOMAIN fm.floors |-> ao.heap[fm.floors[i]]]} :
       \E scenario_att_map \in {[nm \in DOMAIN ao.heap[ao.attendance_map] |->
                       ao.heap[ao.heap[ao.attendance_map][nm]]]} :
       \E c \in OptimizeCalls(get_active_scenario.allocation_results, fl,
                              get_active_scenario.floor_assignments, {},
                              [args EXCEPT !.attendance_map = scenario_att_map],
                              rule_config) :
          /\ session' = [session EXCEPT !.optimization_result = Some(c.result)]
          /\ heap' = Live(ao.heap, {})
    /\ op' = "run_optimization"
    /\ appOthersUnchanged

\* Accept & Apply, offered below an Optimal result of the session
AcceptApply ==
    /\ get_active_scenario.allocation_results # << >>
    /\ session.optimization_result # None
    /\ NotLocked(get_active_scenario)
    /\ \E result \in {Val(session.optimization_result)} :
       \E results \in {get_active_scenario.allocation_results} :
       \E seats \in {[i \in DOMAIN results |->
                        IF results[i].unit_name \in DOMAIN result.unit_allocations
                        THEN result.unit_allocations[results[i].unit_name]
                        ELSE 0]} :
          /\ result.status = "Optimal"
          /\ session' =
               [update_scenario(session.active_scenario_id,
                   [get_active_scenario EXCEPT
                       !.floor_assignments = result.assignments,
                       !.allocation_results =
                           [i \in DOMAIN results |->
                               [results[i] EXCEPT
                                   !.allocated_seats = seats[i],
                                   !.seat_gap = seats[i] - results[i].effective_demand_seats]]])
                EXCEPT !.optimization_result = None]
    /\ op' = "accept_optimization"
    /\ UNCHANGED heap
    /\ appOthersUnchanged

AppNext ==
    \/ SetActive
    \/ ToggleLock
    \/ DeleteScenario
    \/ ResetScenario
    \/ RunSimulation
    \/ RunOptimization
    \/ AcceptApply

SpecApp == AppInit /\ [][AppNext]_vars

\* C22: a step of the application leaves every locked scenario in the session
\* with its overrides, params, allocation results and floor assignments as
\* they were; the only step that changes a locked scenario is Toggle Lock, and
\* it changes nothing but the flag.
C22_LockedUntouched ==
    [][\A id \in DOMAIN session.scenarios :
          session.scenarios[id].is_locked =>
             /\ id \in DOMAIN session'.scenarios
             /\ \/ session'.scenarios[id] = session.scenarios[id]
                \/ /\ op' = "toggle_lock"
                   /\ session'.scenarios[id] =
                         [session.scenarios[id] EXCEPT !.is_locked = FALSE]]_vars

\* the locked scenario is the active one and holds results, an optimization has
\* just run on it and returned an Optimal result that Accept & Apply would put
\* different seats from
C22_Witness ==
    /\ op = "run_optimization"
    /\ get_active_scenario.is_locked
    /\ session.active_scenario_id # "baseline"
    /\ Val(session.optimization_result).status = "Optimal"
    /\ Val(session.optimization_result).assignments # get_active_scenario.floor_assignments

-----------------------------------------------------------------------------
(* Two run_scenario calls in progress at once *)

Calls == {1, 2}

\* a call's frame before its first stage: the scenario it was passed, no locals
Frame(scn) ==
    [pc |-> "called", scenario |-> scn, units |-> << >>, attendance_map |-> None,
     floors |-> << >>, allocations |-> << >>, assignments |-> << >>]

\* what a frame references on the heap
FrameRefs(h, fr) ==
    Range(fr.units) \cup Range(fr.floors) \cup fr.attendance_map
        \cup UNION {{h[am][nm] : nm \in DOMAIN h[am]} : am \in fr.attendance_map}

\* the heap once call p has the frame fr: the base data and what the frames reach
HeapWith(h, p, fr) ==
    Live(h, FrameRefs(h, fr) \cup UNION {FrameRefs(h, procs[q]) : q \in Calls \ {p}})

ConcurrentOverrides ==
    { [A |-> [ScenarioOverride("A") EXCEPT !.hc_growth_pct = Some(30)]],
      [A |-> [ScenarioOverride("A") EXCEPT !.alloc_pct_override = Some(200)]] }

ConcurrentParams ==
    { NoScenario.params,
      [NoScenario.params EXCEPT !.excluded_floors = {<<"B1-T1", 2>>},
                                !.capacity_reduction_pct = 50] }

ConcurrentInit ==
    /\ op = "init"
    /\ DemandIdle
    /\ DistributeIdle
    /\ SpatialIdle
    /\ OptIdle
    /\ rule_config = << >>
    /\ \E a \in {ScnUnit("A", hc, 0) @@ [seat_alloc_pct |-> None] : hc \in 0..MaxScnHc},
          cap \in 1..MaxScnCap :
          heap = <<a, ScnUnit("B", 1, 0) @@ [seat_alloc_pct |-> Some(90)], ScnProfile,
                   [A |-> Base.profile], Floor(1, cap), Floor(2, 1), Floor(3, 2)>>
    /\ scenario = NoScenario
    /\ ret = Raised("not called")
    /\ runs = << >>
    /\ session = NoSession
    /\ placing = NotPlacing
    /\ \E o \in ConcurrentOverrides, p \in ConcurrentParams :
          procs = <<Frame([NoScenario EXCEPT !.unit_overrides = o]),
                    Frame([NoScenario EXCEPT !.params = p])>>

concurrentOthersUnchanged ==
    /\ UNCHANGED <<rule_config, units, allocations, total_supply>>
    /\ UNCHANGED <<scenario, ret, runs, session, placing>>
    /\ UNCHANGED demandVars
    /\ UNCHANGED spatialVars
    /\ UNCHANGED optVars

\* call p moves to the frame fr over the heap h
Step(p, h, fr, stage) ==
    /\ procs' = [procs EXCEPT ![p] = fr]
    /\ heap' = HeapWith(h, p, fr)
    /\ op' = stage
    /\ concurrentOthersUnchanged

StageApplyOverrides ==
    \E p \in Calls :
       /\ procs[p].pc = "called"
       /\ \E ao \in {apply_overrides(heap, Base.units, Base.attendance_map,
                                     procs[p].scenario)} :
             Step(p, ao.heap,
                  [procs[p] EXCEPT !.pc = "overrides applied", !.units = ao.units,
                                   !.attendance_map = Some(ao.attendance_map)],
                  "apply_overrides")

StageFloorModifications ==
    \E p \in Calls :
       /\ procs[p].pc = "overrides applied"
       /\ \E fm \in {apply_floor_modifications(heap, Base.floors, procs[p].scenario)} :
             Step(p, fm.heap,
                  [procs[p] EXCEPT !.pc = "floors modified", !.floors = fm.floors],
                  "apply_floor_modifications")

UnitsOf(fr) == [i \in DOMAIN fr.units |-> heap[fr.units[i]]]
FloorsOf(fr) == [i \in DOMAIN fr.floors |-> heap[fr.floors[i]]]

\* run_allocation; when it raises, the call ends and its locals are gone
StageRunAllocation ==
    \E p \in Calls :
       /\ procs[p].pc = "floors modified"
       /\ \E allocated \in {run_allocation(UnitsOf(procs[p]), FloorsOf(procs[p]),
                                           procs[p].scenario.planning_horizon_months,
                                           rule_config)} :
             IF allocated.raised # "no"
             THEN Step(p, heap, [Frame(procs[p].scenario) EXCEPT !.pc = "raised"],
                       "run_allocation")
             ELSE Step(p, heap,
                       [procs[p] EXCEPT !.pc = "allocated", !.allocations = allocated.value],
                       "run_allocation")

StageManualOverrides ==
    \E p \in Calls :
       /\ procs[p].pc = "allocated"
       /\ Step(p, heap,
               [procs[p] EXCEPT
                   !.pc = "overridden",
                   !.allocations = [i \in DOMAIN @ |->
                                       OverrideAllocation(procs[p].allocations[i],
                                                          UnitsOf(procs[p]),
                                                          procs[p].scenario)]],
               "manual overrides")

StageRedistribute ==
    \E p \in Calls :
       /\ procs[p].pc = "overridden"
       /\ Step(p, heap,
               [procs[p] EXCEPT
                   !.pc = "redistributed",
                   !.allocations = List(distribute_seats(procs[p].allocations,
                                                         UnitsOf(procs[p]),
                                                         TotalSeats(FloorsOf(procs[p])),
                                                         rule_config))],
               "distribute_seats")

StageAssignFloors ==
    \E p \in Calls :
       /\ procs[p].pc = "redistributed"
       /\ \E placed \in {assign_units_to_floors(procs[p].allocations, FloorsOf(procs[p]),
                                                procs[p].scenario.params.excluded_floors)} :
             Step(p, heap,
                  [procs[p] EXCEPT !.pc = "assigned", !.allocations = placed.allocations,
                                   !.assignments = placed.assignments],
                  "assign_units_to_floors")

\* the results are stored on the scenario and the call returns
StageStore ==
    \E p \in Calls :
       /\ procs[p].pc = "assigned"
       /\ Step(p, heap,
               [Frame([procs[p].scenario EXCEPT
                          !.allocation_results = procs[p].allocations,
                          !.floor_assignments =
                              StoredAssignments(@, procs[p].assignments)])
                   EXCEPT !.pc = "returned"],
               "store")

ConcurrentNext ==
    \/ StageApplyOverrides
    \/ StageFloorModifications
    \/ StageRunAllocation
    \/ StageManualOverrides
    \/ StageRedistribute
    \/ StageAssignFloors
    \/ StageStore

SpecConcurrent == ConcurrentInit /\ [][ConcurrentNext]_vars

\* run_scenario as one call from start to end: the heap it leaves and the
\* scenario as it is afterwards
run_scenario(h, scn, cfg) ==
    LET ao == apply_overrides(h, Base.units, Base.attendance_map, scn)
        fm == apply_floor_modifications(ao.heap, Base.floors, scn)
        us == [i \in DOMAIN ao.units |-> fm.heap[ao.units[i]]]
        fl == [i \in DOMAIN fm.floors |-> fm.heap[fm.floors[i]]]
        allocated == run_allocation(us, fl, scn.planning_horizon_months, cfg)
        overridden == [i \in DOMAIN allocated.value |->
                          OverrideAllocation(allocated.value[i], us, scn)]
        redistributed == List(distribute_seats(overridden, us, TotalSeats(fl), cfg))
        placed == assign_units_to_floors(redistributed, fl, scn.params.excluded_floors)
    IN  IF allocated.raised # "no"
        THEN [heap |-> Live(fm.heap, {}), scenario |-> scn]
        ELSE [heap |-> Live(fm.heap, {}),
              scenario |-> [scn EXCEPT
                               !.allocation_results = placed.allocations,
                               !.floor_assignments =
                                   StoredAssignments(@, placed.assignments)]]

\* the two scenarios after the call on `first' ran to its end, then the one on
\* `second'
OneAfterTheOther(h, first, second, cfg) ==
    LET r1 == run_scenario(h, first, cfg)
        r2 == run_scenario(r1.heap, second, cfg)
    IN  [first |-> r1.scenario, second |-> r2.scenario]

Ended(p) == procs[p].pc \in {"returned", "raised"}

\* the scenarios the two calls were passed, as they were before the calls
Passed(p) ==
    [procs[p].scenario EXCEPT !.allocation_results = << >>, !.floor_assignments = << >>]

\* C23: a call that has ended, whatever the order the stages of the two calls
\* ran in and wherever the other call is, leaves its scenario with the results
\* the scenario holds after the two calls run one after the other, in either
\* order.
C23_Independent ==
    \A p \in Calls : \A q \in Calls \ {p} :
        Ended(p) =>
            /\ OneAfterTheOther(Live(heap, {}), Passed(p), Passed(q), rule_config).first
                  = procs[p].scenario
            /\ OneAfterTheOther(Live(heap, {}), Passed(q), Passed(p), rule_config).second
                  = procs[p].scenario

\* the first call, whose override changes unit A, has just stored its results
\* while the second call is between two stages, holding its copies of the
\* units and its reduced floors
C23_Witness ==
    /\ op = "store"
    /\ procs[1].pc = "returned"
    /\ procs[1].scenario.allocation_results # << >>
    /\ procs[2].pc = "floors modified"
    /\ procs[2].scenario.params.capacity_reduction_pct > 0
    /\ \E i \in DOMAIN procs[2].floors : heap[procs[2].floors[i]] # heap[Base.floors[i]]
-----------------------------------------------------------------------------
(* The runtime constraints of the optimizer *)

\* the floors of asg that hold seats of unit_name
FloorsHolding(asg, unit_name) ==
    {<<asg[k].tower_id, asg[k].floor_number>> :
        k \in {n \in DOMAIN asg : asg[n].unit_name = unit_name /\ asg[n].seats_assigned > 0}}

\* C24: in an Optimal result, with max_floors_per_unit set no unit has seats on
\* more distinct floors than that; a unit with a non-empty pinned tower list
\* has seats on floors of those towers only; and, unless the guarantee was
\* relaxed, every unit gets at least round(min_guarantee_pct * demand basis).
C24_RuntimeConstraints ==
    OptimalReturned =>
        \A i \in DOMAIN allocations :
           LET u == allocations[i].unit_name
               asg == opt_result.assignments
               pins == opt_args.pinned_tower_ids
           IN  /\ opt_args.max_floors_per_unit # None =>
                     Cardinality(FloorsHolding(asg, u)) <= Val(opt_args.max_floors_per_unit)
               /\ (u \in DOMAIN pins /\ pins[u] # {}) =>
                     \A f \in FloorsHolding(asg, u) : f[1] \in pins[u]
               /\ (opt_args.min_guarantee_pct # None /\ ~opt_result.message.relaxed_note) =>
                     /\ opt_result.unit_allocations[u]
                           >= PyRound(Val(opt_args.min_guarantee_pct)
                                         * DemandBasis(allocations, opt_args, rule_config)[i],
                                      100)
                     /\ SeatsOfUnit(asg, u) = opt_result.unit_allocations[u]

\* all three constraints are set and the guarantee stood: the pinned unit sits
\* in its tower although another tower has free seats, and a unit is held to
\* one floor and gets fewer seats than its demand but no fewer than guaranteed
C24_Witness ==
    /\ OptimalReturned
    /\ opt_args.max_floors_per_unit = Some(1)
    /\ opt_args.min_guarantee_pct # None
    /\ ~opt_result.message.relaxed_note
    /\ \E i \in DOMAIN allocations :
          /\ allocations[i].unit_name \in DOMAIN opt_args.pinned_tower_ids
          /\ opt_result.unit_allocations[allocations[i].unit_name] > 0
          /\ \E j \in DOMAIN floors :
                /\ floors[j].tower_id \notin opt_args.pinned_tower_ids[allocations[i].unit_name]
                /\ floor_id(floors[j]) \notin excluded
                /\ SeatsOnFloorOf(opt_result.assignments, floors[j]) < floors[j].total_seats
    /\ \E i \in DOMAIN allocations :
          /\ opt_result.unit_allocations[allocations[i].unit_name]
                < allocations[i].effective_demand_seats
          /\ opt_result.unit_allocations[allocations[i].unit_name] > 0
          /\ TotalDemand(allocations) <= Capacity(floors, excluded)

-----------------------------------------------------------------------------
(* distribute_seats called on its own output *)

\* C25: a distribute_seats call on the output of an earlier call, with the same
\* units and supply, leaves every unit's effective demand, allocated seats and
\* seat gap as they were.
C25_Idempotent ==
    [][(Distribute /\ op = "distribute_seats") =>
          \A i \in DOMAIN allocations :
             /\ allocations'[i].effective_demand_seats = allocations[i].effective_demand_seats
             /\ allocations'[i].allocated_seats = allocations[i].allocated_seats
             /\ allocations'[i].seat_gap = allocations[i].seat_gap]_vars


\* C26: a distribute_seats call under scarcity hands out min(supply, total
\* demand after the shrinkage releases) seats in total: the whole supply
\* whenever the demand left after the releases is at least the supply.
C26_NoSeatWasted ==
    [][(Distribute /\ TotalDemand(allocations) > total_supply) =>
          TotalAllocated(allocations')
             = IF total_supply < TotalDemand(allocations')
               THEN total_supply ELSE TotalDemand(allocations')]_vars

\* the whole supply is out although no unit's proportional share of it is a
\* whole number, and a unit that released seats is among the three that got some
C26_Witness ==
    /\ op = "distribute_seats"
    /\ TotalDemand(allocations) > total_supply
    /\ TotalAllocated(allocations) = total_supply
    /\ \A i \in DOMAIN allocations :
          /\ allocations[i].allocated_seats > 0
          /\ (total_supply * allocations[i].effective_demand_seats)
                % TotalDemand(allocations) # 0
    /\ \E i \in DOMAIN allocations : net_hc_change_pct(units[i]) < 0

-----------------------------------------------------------------------------
(* Infeasibility *)

\* x = 0 for every unit and floor of the problem
AllZero(allocs, avail) == [pr \in (DOMAIN allocs) \X avail |-> 0]

-----------------------------------------------------------------------------
(* The order of placement *)

\* position of the unit in the allocations passed in
IndexOf(allocs, unit_name) == CHOOSE i \in DOMAIN allocs : allocs[i].unit_name = unit_name

\* unit u is placed before unit v: more allocated seats, or as many and
\* earlier in the list
PlacedBefore(allocs, u, v) ==
    LET i == IndexOf(allocs, u)
        j == IndexOf(allocs, v)
    IN  \/ allocs[i].allocated_seats > allocs[j].allocated_seats
        \/ (allocs[i].allocated_seats = allocs[j].allocated_seats /\ i < j)

\* C28: in the list assign_units_to_floors returns, an assignment of one unit
\* that precedes an assignment of another belongs to the unit with more
\* allocated seats (the earlier one in the input when they are equal), so each
\* unit's assignments are one block; and when a unit got fewer seats than it
\* was allocated, no unit placed after it got any.
C28_PlacementOrder ==
    op = "assign_units_to_floors" =>
        /\ \A k, l \in DOMAIN assignments :
              (k < l /\ assignments[k].unit_name # assignments[l].unit_name) =>
                 PlacedBefore(allocations, assignments[k].unit_name, assignments[l].unit_name)
        /\ \A i, j \in DOMAIN allocations :
              (/\ SeatsOfUnit(assignments, allocations[i].unit_name)
                     < allocations[i].allocated_seats
               /\ PlacedBefore(allocations, allocations[i].unit_name, allocations[j].unit_name))
                 => SeatsOfUnit(assignments, allocations[j].unit_name) = 0

\* the last unit of the input has the most seats and was placed first, over two
\* floors; the two others ask for equally many: the earlier one got part of
\* its seats, the later one, which asked for some, none
C28_Witness ==
    /\ op = "assign_units_to_floors"
    /\ Len(assignments) = 3
    /\ assignments[1].unit_name = UnitNames[3]
    /\ assignments[2].unit_name = UnitNames[3]
    /\ assignments[3].unit_name = UnitNames[1]
    /\ allocations[1].allocated_seats = allocations[2].allocated_seats
    /\ assignments[3].seats_assigned < allocations[1].allocated_seats
    /\ allocations[2].allocated_seats > 0

-----------------------------------------------------------------------------
(* assign_units_to_floors, one loop iteration at a time *)

PlacingCaps == <<{1, 2}, {1}, {0, 2}>>

\* the seats the three units may ask for
PlacingSeats == <<{0, 2}, {1, 2}, {0, MaxSeats}>>

PlacingInit ==
    /\ op = "init"
    /\ DemandIdle
    /\ rule_config = << >>
    /\ units = << >>
    /\ total_supply = 0
    /\ \E seats \in [1..Len(UnitNames) -> 0..MaxSeats] :
          /\ \A i \in 1..Len(UnitNames) : seats[i] \in PlacingSeats[i]
          /\ allocations =
                [i \in 1..Len(UnitNames) |->
                    Placed(Recommendation(UnitNames[i], Q(DEFAULT_GLOBAL_ALLOC_PCT, 100),
                                          seats[i]), seats[i])]
    /\ floors \in FloorLists(PlacingCaps)
    /\ excluded \in {{}, {<<"B1-T1", 2>>}}
    /\ assignments = << >>
    /\ fragmentation = << >>
    /\ OptIdle
    /\ ScenarioIdle
    /\ session = NoSession
    /\ procs = << >>
    /\ placing = [pc |-> "called"]

placingOthersUnchanged ==
    /\ UNCHANGED <<rule_config, units, total_supply, floors, excluded>>
    /\ UNCHANGED <<session, procs>>
    /\ UNCHANGED demandVars
    /\ UNCHANGED optVars
    /\ UNCHANGED scenarioVars

\* lines 62-74: floor_remaining of the non-excluded floors, the sorted units
EnterPlacement ==
    /\ placing.pc = "called"
    /\ placing' = [pc |-> "for", order |-> PlacementOrder(allocations), k |-> 1,
                   seats_to_place |-> 0,
                   floor_remaining |-> InitialRemaining(floors, excluded)]
    /\ op' = "enter"
    /\ UNCHANGED <<allocations, assignments, fragmentation>>
    /\ placingOthersUnchanged

\* the for loop takes the next unit of sorted_allocs
NextUnit ==
    /\ placing.pc = "for"
    /\ placing.k <= Len(placing.order)
    /\ placing' = [placing EXCEPT
                      !.pc = "while",
                      !.seats_to_place = allocations[placing.order[placing.k]].allocated_seats]
    /\ op' = "next unit"
    /\ UNCHANGED <<allocations, assignments, fragmentation>>
    /\ placingOthersUnchanged

CurrentUnit == allocations[placing.order[placing.k]].unit_name

\* `while seats_to_place > 0' is false: the unit is done
UnitPlaced ==
    /\ placing.pc = "while"
    /\ placing.seats_to_place <= 0
    /\ placing' = [placing EXCEPT !.pc = "for", !.k = @ + 1]
    /\ op' = "unit placed"
    /\ UNCHANGED <<allocations, assignments, fragmentation>>
    /\ placingOthersUnchanged

\* one iteration that found a floor: min(seats_to_place, remaining) seats go there
PlaceOnBest ==
    /\ placing.pc = "while"
    /\ placing.seats_to_place > 0
    /\ \E best \in {BestFloor(floors, placing.floor_remaining, assignments, CurrentUnit)} :
       \E seats_on_floor \in {IF best = 0 THEN 0
                              ELSE SeatsOnFloor(placing.seats_to_place,
                                                placing.floor_remaining[best])} :
          /\ best # 0
          /\ assignments' =
                Append(assignments,
                       FloorAssignment(CurrentUnit, floors[best], seats_on_floor,
                                       compute_adjacency_tier(floors[best], assignments,
                                                              CurrentUnit)[1]))
          /\ placing' = [placing EXCEPT !.floor_remaining[best] = @ - seats_on_floor,
                                        !.seats_to_place = @ - seats_on_floor]
    /\ op' = "place"
    /\ UNCHANGED <<allocations, fragmentation>>
    /\ placingOthersUnchanged

\* one iteration that found no floor: break, the seats left to place are dropped
NoFloorLeft ==
    /\ placing.pc = "while"
    /\ placing.seats_to_place > 0
    /\ BestFloor(floors, placing.floor_remaining, assignments, CurrentUnit) = 0
    /\ placing' = [placing EXCEPT !.pc = "for", !.k = @ + 1]
    /\ op' = "break"
    /\ UNCHANGED <<allocations, assignments, fragmentation>>
    /\ placingOthersUnchanged

\* lines 118-133: the fragmentation scores, written back, and the return
ReturnPlacement ==
    /\ placing.pc = "for"
    /\ placing.k > Len(placing.order)
    /\ \E scores \in {[nm \in {allocations[i].unit_name : i \in DOMAIN allocations} |->
                         FragmentationScore(allocations[IndexOf(allocations, nm)],
                                            assignments)]} :
          /\ fragmentation' = scores
          /\ allocations' = [i \in DOMAIN allocations |->
                                [allocations[i] EXCEPT
                                    !.fragmentation_score = scores[allocations[i].unit_name]]]
    /\ placing' = [pc |-> "returned"]
    /\ op' = "assign_units_to_floors"
    /\ UNCHANGED assignments
    /\ placingOthersUnchanged

PlacingNext ==
    \/ EnterPlacement
    \/ NextUnit
    \/ UnitPlaced
    \/ PlaceOnBest
    \/ NoFloorLeft
    \/ ReturnPlacement

\* the call runs on until it returns: nothing but its own steps can stop it
SpecPlacing == PlacingInit /\ [][PlacingNext]_vars /\ WF_vars(PlacingNext)

\* seats still free on the non-excluded floors
FreeSeats == SumOver(placing.floor_remaining, DOMAIN placing.floor_remaining)

\* C29: the call returns for every input; an iteration of the placement loop
\* either places at least one seat, which lowers the unit's seats to place and
\* the free seats of one floor by as much, or finds no non-excluded floor with
\* a seat left and ends the unit's loop with its seats unplaced, and the call
\* goes on to its return.
C29_Terminates ==
    /\ <>(placing.pc = "returned")
    /\ [][/\ PlaceOnBest =>
                /\ placing'.seats_to_place < placing.seats_to_place
                /\ placing'.seats_to_place >= 0
                /\ FreeSeats' < FreeSeats
                /\ FreeSeats - FreeSeats' = placing.seats_to_place - placing'.seats_to_place
                /\ \A j \in DOMAIN placing.floor_remaining : placing'.floor_remaining[j] >= 0
          /\ (placing.pc = "while" /\ placing.seats_to_place > 0 /\ ~PlaceOnBest) =>
                /\ \A j \in DOMAIN placing.floor_remaining : placing.floor_remaining[j] <= 0
                /\ assignments' = assignments
                /\ placing'.pc = "for"]_vars

\* the call has returned after a break: a unit was placed in part, over two
\* floors, and a unit after it not at all
C29_Witness ==
    /\ placing.pc = "returned"
    /\ \E i \in DOMAIN allocations :
          /\ SeatsOfUnit(assignments, allocations[i].unit_name) > 0
          /\ SeatsOfUnit(assignments, allocations[i].unit_name) < allocations[i].allocated_seats
          /\ FloorsUsed(assignments, allocations[i].unit_name) = 2
    /\ \E i \in DOMAIN allocations :
          /\ allocations[i].allocated_seats > 0
          /\ SeatsOfUnit(assignments, allocations[i].unit_name) = 0

-----------------------------------------------------------------------------
(* Floors of equal score, at the sizes of the end-to-end example *)

ExampleSeats == 320
ExampleFloorSeats == 200

TieSeats == {0, ExampleSeats - ExampleFloorSeats, ExampleSeats}
TieCaps == {0, ExampleSeats - ExampleFloorSeats, ExampleFloorSeats}

\* one to three units over the first two or all three floors of the plan
TieInit ==
    /\ op = "init"
    /\ DemandIdle
    /\ rule_config = << >>
    /\ units = << >>
    /\ total_supply = 0
    /\ \E n \in 1..Len(UnitNames), seats \in [1..Len(UnitNames) -> TieSeats] :
          allocations = [i \in 1..n |->
                            Placed(Recommendation(UnitNames[i], Q(DEFAULT_GLOBAL_ALLOC_PCT, 100),
                                                  seats[i]), seats[i])]
    /\ \E n \in 2..Len(FloorPlan), caps \in [1..Len(FloorPlan) -> TieCaps] :
          floors = [j \in 1..n |-> Floor(j, caps[j])]
    /\ excluded \in {{}, {<<"B1-T1", 2>>}}
    /\ assignments = << >>
    /\ fragmentation = << >>
    /\ OptIdle
    /\ ScenarioIdle
    /\ AppIdle

TieNext == AssignFloors

SpecTie == TieInit /\ [][TieNext]_vars

\* one unit with the example's seats, two floors of the example's size, none excluded
ExampleInput ==
    /\ Len(allocations) = 1
    /\ allocations[1].allocated_seats = ExampleSeats
    /\ Len(floors) = 2
    /\ \A j \in DOMAIN floors :
          floors[j].total_seats = ExampleFloorSeats /\ floor_id(floors[j]) \notin excluded

\* position in floors of the floor an assignment names
FloorIndex(a) == CHOOSE j \in DOMAIN floors : floor_id(floors[j]) = <<a.tower_id, a.floor_number>>

\* C30: every assignment of the returned list went to a floor that, among the
\* non-excluded floors with seats left at that moment, had the highest score
\* and, among those of that score, comes first in the input floor list; and one
\* unit with 320 seats over two 200-seat floors has 200 seats on the first
\* floor and 120 on the second.
C30_FirstOfBest ==
    op = "assign_units_to_floors" =>
        /\ \A k \in DOMAIN assignments :
              LET before == SubSeq(assignments, 1, k - 1)
                  u == assignments[k].unit_name
                  chosen == FloorIndex(assignments[k])
                  left(j) == floors[j].total_seats - SeatsOnFloorOf(before, floors[j])
                  s(j) == score_floor_for_unit(floors[j], left(j), before, u,
                                               FloorsUsed(before, u))
              IN  \A j \in DOMAIN floors \ {chosen} :
                     (floor_id(floors[j]) \notin excluded /\ left(j) > 0) =>
                        \/ s(j) < s(chosen)
                        \/ (s(j) = s(chosen) /\ chosen < j)
        /\ ExampleInput =>
              /\ Len(assignments) = 2
              /\ FloorIndex(assignments[1]) = 1
              /\ assignments[1].seats_assigned = ExampleFloorSeats
              /\ FloorIndex(assignments[2]) = 2
              /\ assignments[2].seats_assigned = ExampleSeats - ExampleFloorSeats

\* the example has been placed: the two floors scored alike for the first
\* placement and the unit spans both
C30_Witness ==
    /\ op = "assign_units_to_floors"
    /\ ExampleInput
    /\ SeatsOfUnit(assignments, allocations[1].unit_name) = ExampleSeats
    /\ score_floor_for_unit(floors[1], floors[1].total_seats, << >>,
                            allocations[1].unit_name, 0)
          = score_floor_for_unit(floors[2], floors[2].total_seats, << >>,
                                 allocations[1].unit_name, 0)

=============================================================================
